---- MODULE Spec2Model ----
(***************************************************************************)
(* A model of the go-browser rendering core: the HTML tokenizer and tree   *)
(* builder (package dom), the DOM mutation methods, the CSS cascade        *)
(* (package css) and the flexbox engine (package gocko/layout).            *)
(*                                                                         *)
(* Go strings are modelled as sequences of one-character strings, so that  *)
(* scanning, trimming and splitting are computed character by character as *)
(* the code does.  Go offsets are 0-based: the byte raw[i] of the code is  *)
(* raw[i+1] here, and the slice raw[a:b] is Slice(raw, a, b).              *)
(***************************************************************************)
EXTENDS Integers, Sequences, FiniteSets, TLC

VARIABLES
    Raw,        \* Tokenizer.Raw: the HTML text being parsed
    Pos,        \* Tokenizer.Pos: 0-based offset of the next unread byte
    nodes,      \* the heap of dom.Node objects, indexed by node id (1..Len)
    current,    \* ParseHTML's insertion point (a node id)
    pc,         \* where ParseHTML is: "parsing" or "done"; "idle" outside it
    last,       \* history: what the last main-loop iteration of ParseHTML did
    origin,     \* history, per node id: the branch and raw tag that created it
    sheets,     \* the []*Stylesheet handed to the cascade
    results,    \* history: the styles returned by the ComputeStyles calls so far
    fc,         \* the FlexContainer object, with its Items and Lines
    laidOut,    \* TRUE when Layout has run since the container last changed
    layouts,    \* history: the container as each Layout call so far left it
    applied,    \* the ComputedStyle objects a property is applied to, and how
    stylesheet, \* ParseStylesheet at work: its text, position and Rules so far
    matched,    \* history: the last selector parsed and matched against a node
    browser     \* the browser App with its JS engine: goroutines, job queue, page

parseVars == <<Raw, Pos, nodes, current, pc, last, origin>>

\* what the parser and the DOM methods never touch
otherVars == <<sheets, results, fc, laidOut, layouts>>

\* what only the property parsers touch
moreVars == <<applied, stylesheet, matched, browser>>

vars == <<Raw, Pos, nodes, current, pc, last, origin, sheets, results, fc, laidOut,
          layouts,
          applied, stylesheet, matched, browser>>

\* no cascade is running: no stylesheets, no ComputeStyles call made
CascadeIdle ==
    /\ sheets = <<>>
    /\ results = <<>>

\* no flex layout is running
FlexIdle ==
    /\ fc = <<>>
    /\ laidOut = FALSE
    /\ layouts = <<>>

\* no property is being applied
PropsIdle == applied = <<>>

\* ParseStylesheet is not running
SheetIdle == stylesheet = <<>>

\* no selector is being matched
SelectIdle == matched = <<>>

\* no page is loaded in the browser App
BrowserIdle == browser = <<>>

MoreIdle ==
    /\ PropsIdle
    /\ SheetIdle
    /\ SelectIdle
    /\ BrowserIdle

----------------------------------------------------------------------------
(* Go's strings package on sequences of characters *)

Min(S) == CHOOSE x \in S : \A y \in S : x <= y

Max(S) == CHOOSE x \in S : \A y \in S : x >= y

Slice(s, a, b) == SubSeq(s, a + 1, b)

IsSpace(c) == c \in {" ", "\t", "\n", "\r"}

UpperToLower ==
    [A |-> "a", B |-> "b", C |-> "c", D |-> "d", E |-> "e", F |-> "f",
     G |-> "g", H |-> "h", I |-> "i", J |-> "j", K |-> "k", L |-> "l",
     M |-> "m", N |-> "n", O |-> "o", P |-> "p", Q |-> "q", R |-> "r",
     S |-> "s", T |-> "t", U |-> "u", V |-> "v", W |-> "w", X |-> "x",
     Y |-> "y", Z |-> "z"]

ToLower(s) ==
    [i \in 1..Len(s) |->
        IF s[i] \in DOMAIN UpperToLower THEN UpperToLower[s[i]] ELSE s[i]]

TrimSpace(s) ==
    LET keep == {i \in 1..Len(s) : ~IsSpace(s[i])}
    IN  IF keep = {} THEN <<>> ELSE SubSeq(s, Min(keep), Max(keep))

HasPrefix(s, p) == Len(s) >= Len(p) /\ SubSeq(s, 1, Len(p)) = p

HasSuffix(s, p) ==
    Len(s) >= Len(p) /\ SubSeq(s, Len(s) - Len(p) + 1, Len(s)) = p

TrimSuffix(s, p) ==
    IF HasSuffix(s, p) THEN SubSeq(s, 1, Len(s) - Len(p)) ELSE s

\* strings.Index: the 0-based offset of the first occurrence of p in s, or -1
Index(s, p) ==
    LET at == {i \in 0..(Len(s) - Len(p)) : Slice(s, i, i + Len(p)) = p}
    IN  IF at = {} THEN -1 ELSE Min(at)

Contains(s, p) == Index(s, p) # -1

\* strings.Fields: the maximal runs of non-space characters, in order
RECURSIVE FieldsFrom(_, _)
FieldsFrom(s, i) ==
    IF i > Len(s) THEN <<>>
    ELSE IF IsSpace(s[i]) THEN FieldsFrom(s, i + 1)
    ELSE LET stops == {j \in i..Len(s) : IsSpace(s[j])}
             e == IF stops = {} THEN Len(s) + 1 ELSE Min(stops)
         IN  <<SubSeq(s, i, e - 1)>> \o FieldsFrom(s, e)

Fields(s) == FieldsFrom(s, 1)

----------------------------------------------------------------------------
(* dom.Tokenizer *)

\* the loop `for t.Pos < len(t.Raw) && t.Raw[t.Pos] != c { t.Pos++ }`
ScanUntil(raw, p, c) ==
    Min({q \in p..Len(raw) : q = Len(raw) \/ raw[q + 1] = c})

\* the comment loop of NextToken: stop after the first "-->" at or after p
CommentEnd(raw, p) ==
    LET hits == {q \in p..Len(raw) :
                    q + 2 < Len(raw) /\ Slice(raw, q, q + 3) = <<"-", "-", ">">>}
    IN  IF hits = {} THEN Len(raw) ELSE Min(hits) + 3

HasMore(raw, p) == p < Len(raw)

NextToken(raw, start) ==
    LET n == Len(raw) IN
    IF start < n /\ raw[start + 1] = "<" THEN
        LET p1 == start + 1
            isClose == p1 < n /\ raw[p1 + 1] = "/"
            p2 == IF isClose THEN p1 + 1 ELSE p1
        IN  IF p2 < n /\ raw[p2 + 1] = "!" THEN
                LET q == IF p2 + 2 < n /\ Slice(raw, p2, p2 + 2) = <<"!", "-">>
                         THEN CommentEnd(raw, p2)
                         ELSE LET g == ScanUntil(raw, p2, ">")
                              IN  IF g < n THEN g + 1 ELSE g
                IN  [tagName |-> <<>>, fullTag |-> <<>>, isTag |-> FALSE,
                     isClose |-> FALSE, pos |-> q]
            ELSE
                LET q == ScanUntil(raw, p2, ">")
                    fullTag == IF q > p2 THEN Slice(raw, p2, q) ELSE <<>>
                    parts == Fields(fullTag)
                    tagName == IF Len(parts) > 0
                               THEN TrimSuffix(parts[1], <<"/">>) ELSE <<>>
                IN  [tagName |-> tagName, fullTag |-> fullTag, isTag |-> TRUE,
                     isClose |-> isClose, pos |-> IF q < n THEN q + 1 ELSE q]
    ELSE
        LET q == ScanUntil(raw, start, "<")
        IN  [tagName |-> Slice(raw, start, q), fullTag |-> <<>>,
             isTag |-> FALSE, isClose |-> FALSE, pos |-> q]

----------------------------------------------------------------------------
(* string constants of the code, as character sequences *)

S_div == <<"d", "i", "v">>

S_p == <<"p">>

S_h1 == <<"h", "1">>

S_h2 == <<"h", "2">>

S_h3 == <<"h", "3">>

S_h4 == <<"h", "4">>

S_h5 == <<"h", "5">>

S_h6 == <<"h", "6">>

S_hr == <<"h", "r">>

S_table == <<"t", "a", "b", "l", "e">>

S_tr == <<"t", "r">>

S_br == <<"b", "r">>

S_title == <<"t", "i", "t", "l", "e">>

S_section == <<"s", "e", "c", "t", "i", "o", "n">>

S_article == <<"a", "r", "t", "i", "c", "l", "e">>

S_header == <<"h", "e", "a", "d", "e", "r">>

S_footer == <<"f", "o", "o", "t", "e", "r">>

S_nav == <<"n", "a", "v">>

S_main == <<"m", "a", "i", "n">>

S_ul == <<"u", "l">>

S_ol == <<"o", "l">>

S_li == <<"l", "i">>

S_form == <<"f", "o", "r", "m">>

S_blockquote == <<"b", "l", "o", "c", "k", "q", "u", "o", "t", "e">>

S_pre == <<"p", "r", "e">>

S_figure == <<"f", "i", "g", "u", "r", "e">>

S_figcaption == <<"f", "i", "g", "c", "a", "p", "t", "i", "o", "n">>

S_aside == <<"a", "s", "i", "d", "e">>

S_span == <<"s", "p", "a", "n">>

S_b == <<"b">>

S_i == <<"i">>

S_strong == <<"s", "t", "r", "o", "n", "g">>

S_em == <<"e", "m">>

S_a == <<"a">>

S_td == <<"t", "d">>

S_th == <<"t", "h">>

S_img == <<"i", "m", "g">>

S_label == <<"l", "a", "b", "e", "l">>

S_small == <<"s", "m", "a", "l", "l">>

S_sub == <<"s", "u", "b">>

S_sup == <<"s", "u", "p">>

S_head == <<"h", "e", "a", "d">>

S_script == <<"s", "c", "r", "i", "p", "t">>

S_style == <<"s", "t", "y", "l", "e">>

S_svg == <<"s", "v", "g">>

S_path == <<"p", "a", "t", "h">>

S_meta == <<"m", "e", "t", "a">>

S_link == <<"l", "i", "n", "k">>

S_area == <<"a", "r", "e", "a">>

S_base == <<"b", "a", "s", "e">>

S_col == <<"c", "o", "l">>

S_embed == <<"e", "m", "b", "e", "d">>

S_input == <<"i", "n", "p", "u", "t">>

S_param == <<"p", "a", "r", "a", "m">>

S_source == <<"s", "o", "u", "r", "c", "e">>

S_track == <<"t", "r", "a", "c", "k">>

S_wbr == <<"w", "b", "r">>

S_noscript == <<"n", "o", "s", "c", "r", "i", "p", "t">>

S_template == <<"t", "e", "m", "p", "l", "a", "t", "e">>

S_root == <<"r", "o", "o", "t">>

S_id == <<"i", "d">>

S_class == <<"c", "l", "a", "s", "s">>

S_button == <<"b", "u", "t", "t", "o", "n">>


----------------------------------------------------------------------------
(* dom.Node *)

Nil == 0

\* GetDefaultDisplay
GetDefaultDisplay(tag) ==
    IF tag \in {S_div, S_p, S_h1, S_h2, S_h3, S_h4, S_h5, S_h6, S_hr, S_table,
                S_tr, S_br, S_title, S_section, S_article, S_header, S_footer,
                S_nav, S_main, S_ul, S_ol, S_li, S_form, S_blockquote, S_pre,
                S_figure, S_figcaption, S_aside}
    THEN "DisplayBlock"
    ELSE IF tag \in {S_span, S_b, S_i, S_strong, S_em, S_a, S_td, S_th, S_img,
                     S_label, S_small, S_sub, S_sup}
    THEN "DisplayInline"
    ELSE IF tag \in {S_head, S_script, S_style, S_svg, S_path, S_meta, S_link}
    THEN "DisplayNone"
    ELSE "DisplayInline"

\* NewElement: a fresh element with no parent, no children, no attributes.
\* ComputedStyle is <<>> for nil and <<style>> once the cascade has set it.
NewElement(tag) ==
    [Type |-> "NodeElement", Tag |-> tag, Content |-> <<>>, Children |-> <<>>,
     Parent |-> Nil, Display |-> GetDefaultDisplay(tag), Attributes |-> <<>>,
     ComputedStyle |-> <<>>]

NewText(content) ==
    [Type |-> "NodeText", Tag |-> <<>>, Content |-> content, Children |-> <<>>,
     Parent |-> Nil, Display |-> "DisplayInline", Attributes |-> <<>>,
     ComputedStyle |-> <<>>]

\* AppendChild without the back-reference `child.Parent = n`
AppendChildNoBackRef(h, n, child) ==
    [h EXCEPT ![n].Children = Append(@, child)]

\* Node.AppendChild on the heap h: child.Parent = n, then n.Children grows
AppendChild(h, n, child) ==
    [h EXCEPT ![child].Parent = n, ![n].Children = Append(@, child)]

\* Node.GetAttr
GetAttr(node, name) ==
    IF name \in DOMAIN node.Attributes THEN node.Attributes[name] ELSE <<>>

WordChars ==
    {"a", "b", "c", "d", "e", "f", "g", "h", "i", "j", "k", "l", "m", "n", "o",
     "p", "q", "r", "s", "t", "u", "v", "w", "x", "y", "z", "0", "1", "2", "3",
     "4", "5", "6", "7", "8", "9", "_"} \cup DOMAIN UpperToLower

Quotes == {"\"", "'"}

\* first index >= i of s (1-based) whose character is not in set C, or Len+1
SkipWhile(s, i, C) ==
    Min({j \in i..(Len(s) + 1) : j = Len(s) + 1 \/ s[j] \notin C})

\* first index >= i of s (1-based) whose character is in set C, or Len+1
SkipUntil(s, i, C) ==
    Min({j \in i..(Len(s) + 1) : j = Len(s) + 1 \/ s[j] \in C})

\* one match of attrRegex `(\w+)\s*=\s*["']([^"']*)["']` anchored at index i
AttrMatchAt(s, i) ==
    LET j  == SkipWhile(s, i, WordChars)
        k  == SkipWhile(s, j, {" ", "\t", "\n", "\r"})
        k2 == SkipWhile(s, k + 1, {" ", "\t", "\n", "\r"})
        m  == SkipUntil(s, k2 + 1, Quotes)
        ok == /\ j > i
              /\ k <= Len(s) /\ s[k] = "="
              /\ k2 <= Len(s) /\ s[k2] \in Quotes
              /\ m <= Len(s)
    IN  [ok |-> ok,
         name |-> IF ok THEN SubSeq(s, i, j - 1) ELSE <<>>,
         value |-> IF ok THEN SubSeq(s, k2 + 1, m - 1) ELSE <<>>,
         end |-> IF ok THEN m + 1 ELSE i]

\* attrRegex.FindAllStringSubmatch: leftmost non-overlapping matches, folded
\* into the map (a later attribute of the same name overwrites an earlier one)
RECURSIVE ParseAttributesFrom(_, _, _)
ParseAttributesFrom(s, i, attrs) ==
    IF i > Len(s) THEN attrs
    ELSE LET m == AttrMatchAt(s, i)
         IN  IF m.ok
             THEN ParseAttributesFrom(s, m.end,
                                      (ToLower(m.name) :> m.value) @@ attrs)
             ELSE ParseAttributesFrom(s, i + 1, attrs)

ParseAttributes(tagContent) == ParseAttributesFrom(tagContent, 1, <<>>)

----------------------------------------------------------------------------
(* dom.ParseHTML *)

skipTags == {S_svg, S_noscript, S_template}

rawContentTags == {S_script, S_style}

\* the void table with br forgotten
voidElementsWithoutBr ==
    {S_area, S_base, S_col, S_embed, S_hr, S_img, S_input, S_link,
     S_meta, S_param, S_source, S_track, S_wbr}

voidElements ==
    {S_area, S_base, S_br, S_col, S_embed, S_hr, S_img, S_input, S_link,
     S_meta, S_param, S_source, S_track, S_wbr}

RootId == 1

\* the token the main loop reads next, with the tokenizer left where it was
TokNoAdvance == [NextToken(Raw, Pos) EXCEPT !.pos = Pos]

\* the token the main loop reads next, and its normalised tag name
Tok == NextToken(Raw, Pos)

TagName == ToLower(TrimSpace(Tok.tagName))

IsSelfClosing == HasSuffix(Tok.fullTag, <<"/">>)

\* the closing-tag walk `for p := current; p != nil && p.Parent != nil; p = p.Parent`:
\* the new insertion point, or Nil when no walked element has the tag
\* the closing-tag walk stopping at the matching element itself (`current = p`)
RECURSIVE CloseWalkToElement(_, _, _)
CloseWalkToElement(h, p, tagName) ==
    IF p = Nil \/ h[p].Parent = Nil THEN Nil
    ELSE IF h[p].Tag = tagName THEN p
    ELSE CloseWalkToElement(h, h[p].Parent, tagName)

RECURSIVE CloseWalk(_, _, _)
CloseWalk(h, p, tagName) ==
    IF p = Nil \/ h[p].Parent = Nil THEN Nil
    ELSE IF h[p].Tag = tagName THEN h[p].Parent
    ELSE CloseWalk(h, h[p].Parent, tagName)

\* the raw-content loop comparing the text with closeTag as written, without
\* folding it to lower case
RawCloseAtCaseSensitive(raw, p, closeTag) ==
    LET hits == {q \in p..(Len(raw) - 1) :
                    /\ q + Len(closeTag) <= Len(raw)
                    /\ Slice(raw, q, q + Len(closeTag)) = closeTag}
    IN  IF hits = {} THEN -1 ELSE Min(hits)

\* the raw-content loop: the offset of the first case-insensitive closeTag at or
\* after p, or -1 when the loop runs off the end of the text
RawCloseAt(raw, p, closeTag) ==
    LET hits == {q \in p..(Len(raw) - 1) :
                    /\ q + Len(closeTag) <= Len(raw)
                    /\ ToLower(Slice(raw, q, q + Len(closeTag))) = closeTag}
    IN  IF hits = {} THEN -1 ELSE Min(hits)

\* the skip loop `for tokenizer.HasMore() && depth > 0`: the offset it ends at
RECURSIVE SkipLoop(_, _, _, _)
SkipLoop(raw, p, depth, closeTag) ==
    IF HasMore(raw, p) /\ depth > 0 THEN
        LET t == NextToken(raw, p)
            from == IF t.pos - Len(closeTag) - 5 > 0
                    THEN t.pos - Len(closeTag) - 5 ELSE 0
            remaining == Slice(raw, from, t.pos)
            d == IF t.isTag /\ t.isClose /\ Contains(ToLower(remaining), closeTag)
                 THEN depth - 1 ELSE depth
        IN  SkipLoop(raw, t.pos, d, closeTag)
    ELSE p

Did(kind, newNode, found) ==
    [kind |-> kind, tag |-> TagName, selfClosing |-> IsSelfClosing,
     curBefore |-> current, posBefore |-> Pos, newNode |-> newNode,
     found |-> found]

Born(branch) == [branch |-> branch, selfClosing |-> IsSelfClosing]

\* `if tagName == "" { continue }`
StepEmptyTag ==
    /\ pc = "parsing" /\ HasMore(Raw, Pos)
    /\ Tok.isTag /\ TagName = <<>>
    /\ Pos' = Tok.pos
    /\ last' = Did("emptyTag", Nil, FALSE)
    /\ UNCHANGED <<Raw, nodes, current, pc, origin>>
    /\ UNCHANGED otherVars
    /\ UNCHANGED moreVars

\* the closing-tag branch
StepClose ==
    /\ pc = "parsing" /\ HasMore(Raw, Pos)
    /\ Tok.isTag /\ TagName # <<>> /\ Tok.isClose
    /\ LET to == CloseWalk(nodes, current, TagName)
       IN  /\ current' = IF to = Nil THEN current ELSE to
           /\ last' = Did("close", Nil, to # Nil)
    /\ Pos' = Tok.pos
    /\ UNCHANGED <<Raw, nodes, pc, origin>>
    /\ UNCHANGED otherVars
    /\ UNCHANGED moreVars

\* the rawContentTags branch (script, style)
StepRaw ==
    /\ pc = "parsing" /\ HasMore(Raw, Pos)
    /\ Tok.isTag /\ TagName # <<>> /\ ~Tok.isClose
    /\ TagName \in rawContentTags
    /\ LET newNode == Len(nodes) + 1
           el == [NewElement(TagName) EXCEPT
                      !.Attributes = ParseAttributes(Tok.fullTag)]
           h1 == AppendChild(Append(nodes, el), current, newNode)
           closeTag == <<"<", "/">> \o TagName
           startPos == Tok.pos
           at == RawCloseAt(Raw, startPos, closeTag)
           content == Slice(Raw, startPos, at)
           g == ScanUntil(Raw, at, ">")
       IN  /\ IF at = -1
              THEN /\ nodes' = h1
                   /\ origin' = Append(origin, Born("raw"))
                   /\ Pos' = Len(Raw)
              ELSE /\ IF TrimSpace(content) # <<>>
                      THEN /\ nodes' = AppendChild(Append(h1, NewText(content)),
                                                   newNode, newNode + 1)
                           /\ origin' = origin \o <<Born("raw"), Born("rawtext")>>
                      ELSE /\ nodes' = h1
                           /\ origin' = Append(origin, Born("raw"))
                   /\ Pos' = IF g < Len(Raw) THEN g + 1 ELSE g
           /\ last' = Did("raw", newNode, at # -1)
    /\ UNCHANGED <<Raw, current, pc>>
    /\ UNCHANGED otherVars
    /\ UNCHANGED moreVars

\* the skipTags branch (svg, noscript, template)
StepSkip ==
    /\ pc = "parsing" /\ HasMore(Raw, Pos)
    /\ Tok.isTag /\ TagName # <<>> /\ ~Tok.isClose
    /\ TagName \notin rawContentTags /\ TagName \in skipTags
    /\ Pos' = SkipLoop(Raw, Tok.pos, 1, <<"<", "/">> \o TagName)
    /\ last' = Did("skip", Nil, FALSE)
    /\ UNCHANGED <<Raw, nodes, current, pc, origin>>
    /\ UNCHANGED otherVars
    /\ UNCHANGED moreVars

\* the void / self-closing branch
StepVoid ==
    /\ pc = "parsing" /\ HasMore(Raw, Pos)
    /\ Tok.isTag /\ TagName # <<>> /\ ~Tok.isClose
    /\ TagName \notin rawContentTags /\ TagName \notin skipTags
    /\ TagName \in voidElements \/ IsSelfClosing
    /\ LET newNode == Len(nodes) + 1
           el == [NewElement(TagName) EXCEPT
                      !.Attributes = ParseAttributes(Tok.fullTag)]
       IN  /\ nodes' = AppendChild(Append(nodes, el), current, newNode)
           /\ last' = Did("void", newNode, FALSE)
    /\ origin' = Append(origin, Born("void"))
    /\ Pos' = Tok.pos
    /\ UNCHANGED <<Raw, current, pc>>
    /\ UNCHANGED otherVars
    /\ UNCHANGED moreVars

\* `if (tagName == "p" || tagName == "li") && current.Tag == tagName`: the
\* node the new element is appended to
ImplicitCloseOnlyP(h, cur, tagName) ==
    IF tagName = S_p /\ h[cur].Tag = tagName THEN h[cur].Parent ELSE cur

ImplicitClose(h, cur, tagName) ==
    IF (tagName = S_p \/ tagName = S_li) /\ h[cur].Tag = tagName
    THEN h[cur].Parent ELSE cur

\* the regular opening-tag branch, with the implicit close of p and li
StepOpen ==
    /\ pc = "parsing" /\ HasMore(Raw, Pos)
    /\ Tok.isTag /\ TagName # <<>> /\ ~Tok.isClose
    /\ TagName \notin rawContentTags /\ TagName \notin skipTags
    /\ ~(TagName \in voidElements \/ IsSelfClosing)
    /\ LET cur == ImplicitClose(nodes, current, TagName)
           autoClose == cur # current
           newNode == Len(nodes) + 1
           el == [NewElement(TagName) EXCEPT
                      !.Attributes = ParseAttributes(Tok.fullTag)]
       IN  /\ nodes' = AppendChild(Append(nodes, el), cur, newNode)
           /\ current' = newNode
           /\ last' = Did("open", newNode, autoClose)
    /\ origin' = Append(origin, Born("open"))
    /\ Pos' = Tok.pos
    /\ UNCHANGED <<Raw, pc>>
    /\ UNCHANGED otherVars
    /\ UNCHANGED moreVars

\* the text branch (also what a comment or a declaration falls into)
StepText ==
    /\ pc = "parsing" /\ HasMore(Raw, Pos)
    /\ ~Tok.isTag
    /\ LET text == TrimSpace(Tok.tagName)
           newNode == Len(nodes) + 1
       IN  IF Len(text) > 0
           THEN /\ nodes' = AppendChild(Append(nodes, NewText(text)),
                                        current, newNode)
                /\ origin' = Append(origin, Born("text"))
                /\ last' = Did("text", newNode, FALSE)
           ELSE /\ UNCHANGED <<nodes, origin>>
                /\ last' = Did("text", Nil, FALSE)
    /\ Pos' = Tok.pos
    /\ UNCHANGED <<Raw, current, pc>>
    /\ UNCHANGED otherVars
    /\ UNCHANGED moreVars

\* `return root` once the tokenizer has no more input
ParseReturn ==
    /\ pc = "parsing" /\ ~HasMore(Raw, Pos)
    /\ pc' = "done"
    /\ UNCHANGED <<Raw, Pos, nodes, current, last, origin>>
    /\ UNCHANGED otherVars
    /\ UNCHANGED moreVars

(* the HTML texts ParseHTML is run on: every concatenation of at most       *)
(* MaxPieces lexemes, and a few longer documents                            *)

MaxPieces == 3

Lexemes ==
    {<<"<", "p", ">">>, <<"<", "/", "p", ">">>, <<"<", "l", "i", ">">>,
     <<"<", "b", ">">>, <<"<", "/", "b", ">">>, <<"<", "b", "r", ">">>,
     <<"<", "b", "/", ">">>,
     <<"<", "s", "c", "r", "i", "p", "t", ">">>,
     <<"<", "s", "c", "r", "i", "p", "t", "/", ">">>,
     <<"<", "/", "S", "C", "R", "I", "P", "T", ">">>,
     <<"<", "s", "v", "g", ">">>, <<"<", "/", "s", "v", "g", ">">>,
     <<"x">>, <<" ">>, <<"<", "!", "-", "-">>, <<"-", "-", ">">>, <<"<">>}

RECURSIVE Flatten(_)
Flatten(ps) == IF ps = <<>> THEN <<>> ELSE Head(ps) \o Flatten(Tail(ps))

\* <svg><svg></svg><b>x</b></svg>
NestedSvgDoc ==
    Flatten(<< <<"<", "s", "v", "g", ">">>, <<"<", "s", "v", "g", ">">>,
               <<"<", "/", "s", "v", "g", ">">>, <<"<", "b", ">">>, <<"x">>,
               <<"<", "/", "b", ">">>, <<"<", "/", "s", "v", "g", ">">> >>)

\* <style>p{}<b></STYLE>x
StyleDoc ==
    <<"<", "s", "t", "y", "l", "e", ">", "p", "{", "}", "<", "b", ">", "<",
      "/", "S", "T", "Y", "L", "E", ">", "x">>

\* <div id="a"><p>Hello <b>World</b></p></div>
HelloDoc ==
    <<"<", "d", "i", "v", " ", "i", "d", "=", "\"", "a", "\"", ">", "<",
      "p", ">", "H", "e", "l", "l", "o", " ", "<", "b", ">", "W", "o", "r",
      "l", "d", "<", "/", "b", ">", "<", "/", "p", ">", "<", "/", "d", "i",
      "v", ">">>

Scenarios == {NestedSvgDoc, StyleDoc, HelloDoc}

HtmlInputs ==
    {Flatten(ps) : ps \in UNION {[1..k -> Lexemes] : k \in 0..MaxPieces}}
        \cup Scenarios

ParseInit ==
    /\ Raw \in HtmlInputs
    /\ Pos = 0
    /\ nodes = <<NewElement(S_root)>>
    /\ current = RootId
    /\ pc = "parsing"
    /\ last = [kind |-> "none", tag |-> <<>>, selfClosing |-> FALSE,
               curBefore |-> RootId, posBefore |-> 0, newNode |-> Nil,
               found |-> FALSE]
    /\ origin = <<[branch |-> "root", selfClosing |-> FALSE]>>
    /\ CascadeIdle
    /\ FlexIdle
    /\ MoreIdle

ParseNext ==
    \/ StepEmptyTag
    \/ StepClose
    \/ StepRaw
    \/ StepSkip
    \/ StepVoid
    \/ StepOpen
    \/ StepText
    \/ ParseReturn

SpecParse == ParseInit /\ [][ParseNext]_vars

----------------------------------------------------------------------------
(* properties of ParseHTML *)

\* how many times x occurs in the sequence s
Count(s, x) == Cardinality({i \in DOMAIN s : s[i] = x})

\* the ids of the nodes whose Children list holds n
Holders(h, n) == {m \in DOMAIN h : Count(h[m].Children, n) > 0}

\* the path n, n.Parent, ... up to the node without a parent, for a heap whose
\* Parent links do not cycle within Len(h) steps
RECURSIVE ChainUp(_, _, _)
ChainUp(h, n, fuel) ==
    IF n = Nil \/ fuel = 0 THEN <<>>
    ELSE <<n>> \o ChainUp(h, h[n].Parent, fuel - 1)

Chain(h, n) == ChainUp(h, n, Len(h))

\* C1: the tree ParseHTML returns satisfies the tree invariant: the root has no
\* parent; every other node has a parent, occurs exactly once in that parent's
\* Children and in no other node's Children.
C1_TreeInvariant ==
    pc = "done" =>
        /\ nodes[RootId].Parent = Nil
        /\ Holders(nodes, RootId) = {}
        /\ \A n \in DOMAIN nodes \ {RootId} :
              /\ nodes[n].Parent \in DOMAIN nodes
              /\ Count(nodes[nodes[n].Parent].Children, n) = 1
              /\ Holders(nodes, n) = {nodes[n].Parent}

\* a returned tree with a node nested two levels below the root, built from a
\* text that also held a closing tag nothing matched
C1_Witness ==
    /\ pc = "done"
    /\ \E n \in DOMAIN nodes : nodes[n].Parent \notin {Nil, RootId}
    /\ last.kind = "close" /\ ~last.found

\* C7: a closing tag moves the insertion point to the parent of the nearest open
\* element (searching from the insertion point upward) with that tag name; when
\* no open element matches, the insertion point and the tree are unchanged.
C7_ClosingTag ==
    [][ (pc = "parsing" /\ HasMore(Raw, Pos) /\ Tok.isTag /\ Tok.isClose
            /\ TagName # <<>>)
        => LET open == SelectSeq(Chain(nodes, current),
                                 LAMBDA n : nodes[n].Parent # Nil)
               hits == {i \in DOMAIN open : nodes[open[i]].Tag = TagName}
           IN  /\ nodes' = nodes
               /\ current' = IF hits = {} THEN current
                             ELSE nodes[open[Min(hits)]].Parent ]_vars

\* a closing tag was ignored while the insertion point was inside an element
C7_Witness ==
    /\ last.kind = "close" /\ ~last.found
    /\ current # RootId /\ current = last.curBefore

\* the void tags the claim names
VoidTagsClaimed == {S_br, S_img, S_input, S_hr, S_meta, S_link}

RECURSIVE DepthSkipEnd(_, _, _, _)
DepthSkipEnd(raw, p, depth, tagName) ==
    IF ~HasMore(raw, p) \/ depth = 0 THEN p
    ELSE LET t == NextToken(raw, p)
             same == t.isTag /\ ToLower(TrimSpace(t.tagName)) = tagName
             d == IF same /\ t.isClose THEN depth - 1
                  ELSE IF same /\ ~HasSuffix(t.fullTag, <<"/">>) THEN depth + 1
                  ELSE depth
         IN  DepthSkipEnd(raw, t.pos, d, tagName)

\* C9: ParseHTML discards the whole subtree of an svg, noscript or template
\* element, nested elements of the same name included: parsing resumes after
\* the closing tag that matches the outer opening tag.
C9_SkipsWholeSubtree ==
    last.kind = "skip" =>
        Pos = DepthSkipEnd(Raw, NextToken(Raw, last.posBefore).pos, 1, last.tag)

\* C10: an opening <p> (<li>) met while the insertion point is an open <p> (<li>)
\* closes that element first: the new element is the next sibling of the open
\* one, not its child, and becomes the insertion point.
C10_ImplicitClose ==
    (/\ last.kind = "open" /\ last.tag \in {S_p, S_li}
     /\ nodes[last.curBefore].Tag = last.tag)
    => LET old == last.curBefore
           new == last.newNode
           sibs == nodes[nodes[old].Parent].Children
       IN  /\ current = new
           /\ nodes[new].Parent = nodes[old].Parent
           /\ Count(nodes[old].Children, new) = 0
           /\ \E i \in 1..(Len(sibs) - 1) : sibs[i] = old /\ sibs[i + 1] = new

\* a <li> opened inside an open <li> that already had content
C10_Witness ==
    /\ last.kind = "open" /\ last.tag = S_li
    /\ nodes[last.curBefore].Tag = S_li
    /\ nodes[last.curBefore].Children # <<>>

----------------------------------------------------------------------------
(* the DOM mutation methods: Node.AppendChild, RemoveChild, InsertBefore,   *)
(* ReplaceChild, called by a script on the nodes of a built document        *)

\* the offset (1-based) of the first occurrence of x in s, or 0
FirstAt(s, x) ==
    LET at == {i \in DOMAIN s : s[i] = x} IN IF at = {} THEN 0 ELSE Min(at)

\* Node.RemoveChild
RemoveChild(h, n, child) ==
    LET i == FirstAt(h[n].Children, child)
    IN  IF i = 0 THEN h
        ELSE [h EXCEPT ![n].Children = SubSeq(@, 1, i - 1) \o SubSeq(@, i + 1, Len(@)),
                       ![child].Parent = Nil]

\* Node.InsertBefore
InsertBefore(h, n, newChild, refChild) ==
    LET i == FirstAt(h[n].Children, refChild)
    IN  IF i = 0 THEN h
        ELSE [h EXCEPT ![n].Children =
                            SubSeq(@, 1, i - 1) \o <<newChild>> \o SubSeq(@, i, Len(@)),
                       ![newChild].Parent = n]

\* Node.ReplaceChild
ReplaceChild(h, n, newChild, oldChild) ==
    LET i == FirstAt(h[n].Children, oldChild)
    IN  IF i = 0 THEN h
        ELSE [h EXCEPT ![n].Children[i] = newChild,
                       ![newChild].Parent = n,
                       ![oldChild].Parent = Nil]

\* bounds of the documents scripts mutate: the number of detached elements
\* beside the document's own, and the longest Children list
MaxDetached == 0

MaxChildren == 2

ParserIdle ==
    /\ Raw = <<>>
    /\ Pos = 0
    /\ current = RootId
    /\ pc = "idle"
    /\ last = [kind |-> "none", tag |-> <<>>, selfClosing |-> FALSE,
               curBefore |-> RootId, posBefore |-> 0, newNode |-> Nil,
               found |-> FALSE]
    /\ origin = <<>>

\* the document root > div > p, and MaxDetached elements made by NewElement
\* that are not yet in the document
DomInit ==
    /\ ParserIdle
    /\ CascadeIdle
    /\ FlexIdle
    /\ MoreIdle
    /\ nodes = AppendChild(AppendChild(
                   <<NewElement(S_root), NewElement(S_div), NewElement(S_p)>>
                       \o [i \in 1..MaxDetached |-> NewElement(S_span)],
                   1, 2), 2, 3)

DoAppendChild ==
    \E n, c \in DOMAIN nodes :
        /\ Len(nodes[n].Children) < MaxChildren
        /\ nodes' = AppendChild(nodes, n, c)
        /\ UNCHANGED <<Raw, Pos, current, pc, last, origin>>
        /\ UNCHANGED otherVars
        /\ UNCHANGED moreVars

DoRemoveChild ==
    \E n, c \in DOMAIN nodes :
        /\ nodes' = RemoveChild(nodes, n, c)
        /\ UNCHANGED <<Raw, Pos, current, pc, last, origin>>
        /\ UNCHANGED otherVars
        /\ UNCHANGED moreVars

DoInsertBefore ==
    \E n, c, r \in DOMAIN nodes :
        /\ Len(nodes[n].Children) < MaxChildren
        /\ nodes' = InsertBefore(nodes, n, c, r)
        /\ UNCHANGED <<Raw, Pos, current, pc, last, origin>>
        /\ UNCHANGED otherVars
        /\ UNCHANGED moreVars

DoReplaceChild ==
    \E n, c, o \in DOMAIN nodes :
        /\ nodes' = ReplaceChild(nodes, n, c, o)
        /\ UNCHANGED <<Raw, Pos, current, pc, last, origin>>
        /\ UNCHANGED otherVars
        /\ UNCHANGED moreVars

DomNext == DoAppendChild \/ DoRemoveChild \/ DoInsertBefore \/ DoReplaceChild

SpecDom == DomInit /\ [][DomNext]_vars

\* C2: after any sequence of AppendChild, InsertBefore, ReplaceChild and
\* RemoveChild calls every node has at most one parent, occurs exactly once in the
\* Children of exactly that parent and of no other node, and following Parent
\* links never cycles.
C2_SingleParentNoCycle ==
    \A n \in DOMAIN nodes :
        /\ Holders(nodes, n) = IF nodes[n].Parent = Nil THEN {} ELSE {nodes[n].Parent}
        /\ \A m \in Holders(nodes, n) : Count(nodes[m].Children, n) = 1
        /\ LET up == Chain(nodes, n)
           IN  /\ Cardinality({up[i] : i \in DOMAIN up}) = Len(up)
               /\ nodes[up[Len(up)]].Parent = Nil

----------------------------------------------------------------------------
(* Package css: string literals of the cascade *)

S_black == <<"b", "l", "a", "c", "k">>
S_white == <<"w", "h", "i", "t", "e">>
S_red == <<"r", "e", "d">>
S_green == <<"g", "r", "e", "e", "n">>
S_blue == <<"b", "l", "u", "e">>
S_yellow == <<"y", "e", "l", "l", "o", "w">>
S_cyan == <<"c", "y", "a", "n">>
S_magenta == <<"m", "a", "g", "e", "n", "t", "a">>
S_gray == <<"g", "r", "a", "y">>
S_grey == <<"g", "r", "e", "y">>
S_transparent == <<"t", "r", "a", "n", "s", "p", "a", "r", "e", "n", "t">>
S_orange == <<"o", "r", "a", "n", "g", "e">>
S_purple == <<"p", "u", "r", "p", "l", "e">>
S_pink == <<"p", "i", "n", "k">>
S_brown == <<"b", "r", "o", "w", "n">>
S_navy == <<"n", "a", "v", "y">>
S_teal == <<"t", "e", "a", "l">>
S_olive == <<"o", "l", "i", "v", "e">>
S_maroon == <<"m", "a", "r", "o", "o", "n">>
S_lime == <<"l", "i", "m", "e">>
S_aqua == <<"a", "q", "u", "a">>
S_silver == <<"s", "i", "l", "v", "e", "r">>
S_fuchsia == <<"f", "u", "c", "h", "s", "i", "a">>
S_lightgray == <<"l", "i", "g", "h", "t", "g", "r", "a", "y">>
S_lightgrey == <<"l", "i", "g", "h", "t", "g", "r", "e", "y">>
S_darkgray == <<"d", "a", "r", "k", "g", "r", "a", "y">>
S_darkgrey == <<"d", "a", "r", "k", "g", "r", "e", "y">>
S_whitesmoke == <<"w", "h", "i", "t", "e", "s", "m", "o", "k", "e">>
S_inherit == <<"i", "n", "h", "e", "r", "i", "t">>
S_display == <<"d", "i", "s", "p", "l", "a", "y">>
S_visibility == <<"v", "i", "s", "i", "b", "i", "l", "i", "t", "y">>
S_color == <<"c", "o", "l", "o", "r">>
S_background_color == <<"b", "a", "c", "k", "g", "r", "o", "u", "n", "d", "-", "c", "o", "l", "o", "r">>
S_background == <<"b", "a", "c", "k", "g", "r", "o", "u", "n", "d">>
S_font_size == <<"f", "o", "n", "t", "-", "s", "i", "z", "e">>
S_font_weight == <<"f", "o", "n", "t", "-", "w", "e", "i", "g", "h", "t">>
S_font_family == <<"f", "o", "n", "t", "-", "f", "a", "m", "i", "l", "y">>
S_text_align == <<"t", "e", "x", "t", "-", "a", "l", "i", "g", "n">>
S_line_height == <<"l", "i", "n", "e", "-", "h", "e", "i", "g", "h", "t">>
S_width == <<"w", "i", "d", "t", "h">>
S_height == <<"h", "e", "i", "g", "h", "t">>
S_margin == <<"m", "a", "r", "g", "i", "n">>
S_margin_top == <<"m", "a", "r", "g", "i", "n", "-", "t", "o", "p">>
S_margin_right == <<"m", "a", "r", "g", "i", "n", "-", "r", "i", "g", "h", "t">>
S_margin_bottom == <<"m", "a", "r", "g", "i", "n", "-", "b", "o", "t", "t", "o", "m">>
S_margin_left == <<"m", "a", "r", "g", "i", "n", "-", "l", "e", "f", "t">>
S_padding == <<"p", "a", "d", "d", "i", "n", "g">>
S_padding_top == <<"p", "a", "d", "d", "i", "n", "g", "-", "t", "o", "p">>
S_padding_right == <<"p", "a", "d", "d", "i", "n", "g", "-", "r", "i", "g", "h", "t">>
S_padding_bottom == <<"p", "a", "d", "d", "i", "n", "g", "-", "b", "o", "t", "t", "o", "m">>
S_padding_left == <<"p", "a", "d", "d", "i", "n", "g", "-", "l", "e", "f", "t">>
S_border_radius == <<"b", "o", "r", "d", "e", "r", "-", "r", "a", "d", "i", "u", "s">>
S_position == <<"p", "o", "s", "i", "t", "i", "o", "n">>
S_normal == <<"n", "o", "r", "m", "a", "l">>
S_bold == <<"b", "o", "l", "d">>
S_lighter == <<"l", "i", "g", "h", "t", "e", "r">>
S_bolder == <<"b", "o", "l", "d", "e", "r">>
S_px == <<"p", "x">>
S_rem == <<"r", "e", "m">>
S_vw == <<"v", "w">>
S_vh == <<"v", "h">>
S_gradient == <<"g", "r", "a", "d", "i", "e", "n", "t">>
S_block == <<"b", "l", "o", "c", "k">>
S_inline == <<"i", "n", "l", "i", "n", "e">>
S_inline_block == <<"i", "n", "l", "i", "n", "e", "-", "b", "l", "o", "c", "k">>
S_visible == <<"v", "i", "s", "i", "b", "l", "e">>
S_sans_serif == <<"s", "a", "n", "s", "-", "s", "e", "r", "i", "f">>
S_left == <<"l", "e", "f", "t">>
S_static == <<"s", "t", "a", "t", "i", "c">>
S_first_child == <<"f", "i", "r", "s", "t", "-", "c", "h", "i", "l", "d">>
S_last_child == <<"l", "a", "s", "t", "-", "c", "h", "i", "l", "d">>
S_only_child == <<"o", "n", "l", "y", "-", "c", "h", "i", "l", "d">>
S_pct == <<"%">>
S_important == <<"!", "i", "m", "p", "o", "r", "t", "a", "n", "t">>
S_IMPORTANT == <<"!", "I", "M", "P", "O", "R", "T", "A", "N", "T">>
S_zero == <<"0">>
S_star == <<"*">>
S_nth_child == <<"n", "t", "h", "-", "c", "h", "i", "l", "d">>
S_odd == <<"o", "d", "d">>
S_even == <<"e", "v", "e", "n">>
S_nth_child_open == S_nth_child \o <<"(">>
S_close_paren == <<")">>
S_x == <<"x">>
S_c == <<"c">>

----------------------------------------------------------------------------
(* Package css: values.  float64 fields hold whole numbers here, except    *)
(* LineHeight, which is a quotient and is kept as a reduced fraction       *)
(* <<numerator, denominator>>.                                             *)

RECURSIVE GCD(_, _)
GCD(a, b) == IF b = 0 THEN a ELSE GCD(b, a % b)

\* the float64 quotient a / b for a >= 0, b > 0, as a reduced fraction
Quot(a, b) == LET g == GCD(a, b) IN <<a \div g, b \div g>>

Digits == {"0", "1", "2", "3", "4", "5", "6", "7", "8", "9"}

DigitVal == [d \in Digits |->
    CASE d = "0" -> 0 [] d = "1" -> 1 [] d = "2" -> 2 [] d = "3" -> 3
      [] d = "4" -> 4 [] d = "5" -> 5 [] d = "6" -> 6 [] d = "7" -> 7
      [] d = "8" -> 8 [] d = "9" -> 9]

RECURSIVE DecimalValue(_)
DecimalValue(s) ==
    IF s = <<>> THEN 0
    ELSE 10 * DecimalValue(SubSeq(s, 1, Len(s) - 1)) + DigitVal[s[Len(s)]]

\* strconv.ParseFloat(s, 64) on unsigned whole decimal numerals; every other
\* text of the alphabets used here (empty, letters) is a syntax error
ParseFloat(s) ==
    IF s # <<>> /\ \A i \in 1..Len(s) : s[i] \in Digits
    THEN [ok |-> TRUE, num |-> DecimalValue(s)]
    ELSE [ok |-> FALSE, num |-> 0]

RGBA(r, g, b, a) == <<r, g, b, a>>

\* namedColors
namedColors ==
    (S_black :> RGBA(0, 0, 0, 255)) @@ (S_white :> RGBA(255, 255, 255, 255)) @@
    (S_red :> RGBA(255, 0, 0, 255)) @@ (S_green :> RGBA(0, 128, 0, 255)) @@
    (S_blue :> RGBA(0, 0, 255, 255)) @@ (S_yellow :> RGBA(255, 255, 0, 255)) @@
    (S_cyan :> RGBA(0, 255, 255, 255)) @@ (S_magenta :> RGBA(255, 0, 255, 255)) @@
    (S_gray :> RGBA(128, 128, 128, 255)) @@ (S_grey :> RGBA(128, 128, 128, 255)) @@
    (S_transparent :> RGBA(0, 0, 0, 0)) @@ (S_orange :> RGBA(255, 165, 0, 255)) @@
    (S_purple :> RGBA(128, 0, 128, 255)) @@ (S_pink :> RGBA(255, 192, 203, 255)) @@
    (S_brown :> RGBA(165, 42, 42, 255)) @@ (S_navy :> RGBA(0, 0, 128, 255)) @@
    (S_teal :> RGBA(0, 128, 128, 255)) @@ (S_olive :> RGBA(128, 128, 0, 255)) @@
    (S_maroon :> RGBA(128, 0, 0, 255)) @@ (S_lime :> RGBA(0, 255, 0, 255)) @@
    (S_aqua :> RGBA(0, 255, 255, 255)) @@ (S_silver :> RGBA(192, 192, 192, 255)) @@
    (S_fuchsia :> RGBA(255, 0, 255, 255)) @@
    (S_lightgray :> RGBA(211, 211, 211, 255)) @@
    (S_lightgrey :> RGBA(211, 211, 211, 255)) @@
    (S_darkgray :> RGBA(169, 169, 169, 255)) @@
    (S_darkgrey :> RGBA(169, 169, 169, 255)) @@
    (S_whitesmoke :> RGBA(245, 245, 245, 255)) @@
    (S_inherit :> RGBA(0, 0, 0, 0))

\* ParseColor: the named-colour lookup.  The "#hex" and "rgb(...)" forms are
\* not part of the value alphabets used here; any other text is not a colour.
ParseColor(value) ==
    LET v == ToLower(TrimSpace(value)) IN
    IF v \in DOMAIN namedColors
    THEN [ok |-> TRUE, c |-> namedColors[v]]
    ELSE [ok |-> FALSE, c |-> RGBA(0, 0, 0, 0)]

\* the unit suffixes of ParseLength and their Unit constants
Units ==
    (S_px :> "UnitPx") @@ (S_em :> "UnitEm") @@ (S_rem :> "UnitRem") @@
    (S_pct :> "UnitPercent") @@ (S_vw :> "UnitVw") @@ (S_vh :> "UnitVh")

\* ParseLength: "0", then a number followed by a unit suffix, then a bare
\* number taken as px.  The code tries the suffixes in map order; at most one
\* suffix leaves a numeral that parses, so the order does not matter.
ParseLength(value) ==
    LET v == ToLower(TrimSpace(value))
        fits == {u \in DOMAIN Units :
                    HasSuffix(v, u) /\ ParseFloat(TrimSuffix(v, u)).ok}
    IN  IF v = S_zero THEN [ok |-> TRUE, num |-> 0, unit |-> "UnitPx"]
        ELSE IF fits # {}
        THEN LET u == CHOOSE u \in fits : TRUE IN
             [ok |-> TRUE, num |-> ParseFloat(TrimSuffix(v, u)).num,
              unit |-> Units[u]]
        ELSE IF ParseFloat(v).ok
        THEN [ok |-> TRUE, num |-> ParseFloat(v).num, unit |-> "UnitPx"]
        ELSE [ok |-> FALSE, num |-> 0, unit |-> "UnitPx"]

\* NewComputedStyle handing out one shared object: the style a previous
\* ComputeStyles call has already written to, when there was such a call
NewComputedStyleShared ==
    IF results # <<>> THEN results[Len(results)].style
    ELSE
            [Display |-> S_inline, Visibility |-> S_visible,
             Color |-> RGBA(0, 0, 0, 255), BackgroundColor |-> RGBA(0, 0, 0, 0),
             FontSize |-> 16, FontWeight |-> 400, FontFamily |-> S_sans_serif,
             TextAlign |-> S_left, LineHeight |-> <<6, 5>>, Position |-> S_static,
             Width |-> 0, Height |-> 0,
             MarginTop |-> 0, MarginRight |-> 0, MarginBottom |-> 0, MarginLeft |-> 0,
             PaddingTop |-> 0, PaddingRight |-> 0, PaddingBottom |-> 0,
             PaddingLeft |-> 0, BorderRadius |-> 0]

\* NewComputedStyle.  Only the fields written by NewComputedStyle,
\* DefaultForTag and the properties modelled in ApplyProperty are kept; the
\* other fields of the struct stay at their zero value throughout.
NewComputedStyle ==
    [Display |-> S_inline, Visibility |-> S_visible,
     Color |-> RGBA(0, 0, 0, 255), BackgroundColor |-> RGBA(0, 0, 0, 0),
     FontSize |-> 16, FontWeight |-> 400, FontFamily |-> S_sans_serif,
     TextAlign |-> S_left, LineHeight |-> <<6, 5>>, Position |-> S_static,
     Width |-> 0, Height |-> 0,
     MarginTop |-> 0, MarginRight |-> 0, MarginBottom |-> 0, MarginLeft |-> 0,
     PaddingTop |-> 0, PaddingRight |-> 0, PaddingBottom |-> 0,
     PaddingLeft |-> 0, BorderRadius |-> 0]

\* DefaultForTag: a fresh NewComputedStyle adjusted for the tag
DefaultForTag(tag) ==
    LET style == NewComputedStyle IN
    CASE tag \in {S_div, S_section, S_article, S_header, S_footer, S_nav,
                  S_main, S_ul, S_ol, S_li, S_form, S_table, S_tr,
                  S_blockquote, S_pre} ->
            [style EXCEPT !.Display = S_block]
      [] tag = S_h1 ->
            [style EXCEPT !.Display = S_block, !.FontSize = 32,
                          !.FontWeight = 700, !.MarginTop = 21,
                          !.MarginBottom = 21]
      [] tag = S_h2 ->
            [style EXCEPT !.Display = S_block, !.FontSize = 24,
                          !.FontWeight = 700, !.MarginTop = 19,
                          !.MarginBottom = 19]
      [] tag = S_h3 ->
            [style EXCEPT !.Display = S_block, !.FontSize = 18,
                          !.FontWeight = 700, !.MarginTop = 18,
                          !.MarginBottom = 18]
      [] tag \in {S_h4, S_h5, S_h6} ->
            [style EXCEPT !.Display = S_block, !.FontSize = 16,
                          !.FontWeight = 700, !.MarginTop = 16,
                          !.MarginBottom = 16]
      [] tag = S_p ->
            [style EXCEPT !.Display = S_block, !.MarginTop = 16,
                          !.MarginBottom = 16]
      [] tag = S_a -> [style EXCEPT !.Color = RGBA(0, 0, 238, 255)]
      [] tag \in {S_b, S_strong} -> [style EXCEPT !.FontWeight = 700]
      [] tag = S_button ->
            [style EXCEPT !.Display = S_inline_block, !.PaddingTop = 8,
                          !.PaddingBottom = 8, !.PaddingLeft = 16,
                          !.PaddingRight = 16,
                          !.BackgroundColor = RGBA(240, 240, 240, 255),
                          !.BorderRadius = 4]
      [] OTHER -> style

\* the loop of applyBoxShorthand: the numbers of the parts that parse as a
\* length, in order; a part that does not parse is left out
RECURSIVE ParsedLengths(_)
ParsedLengths(parts) ==
    IF parts = <<>> THEN <<>>
    ELSE LET l == ParseLength(Head(parts)) IN
         (IF l.ok THEN <<l.num>> ELSE <<>>) \o ParsedLengths(Tail(parts))

\* the switch of applyBoxShorthand with the third value of a 3-value
\* shorthand ignored
BoxSidesTwoOfThree(values) ==
    CASE Len(values) = 1 -> <<values[1], values[1], values[1], values[1]>>
      [] Len(values) = 2 -> <<values[1], values[2], values[1], values[2]>>
      [] Len(values) = 3 -> <<values[1], values[2], values[1], values[2]>>
      [] Len(values) = 4 -> <<values[1], values[2], values[3], values[4]>>
      [] OTHER -> <<>>

\* applyBoxShorthand, `switch len(values)`: the <<top, right, bottom, left>>
\* handed to apply, or <<>> when apply is not called
BoxSides(values) ==
    CASE Len(values) = 1 -> <<values[1], values[1], values[1], values[1]>>
      [] Len(values) = 2 -> <<values[1], values[2], values[1], values[2]>>
      [] Len(values) = 3 -> <<values[1], values[2], values[3], values[2]>>
      [] Len(values) = 4 -> <<values[1], values[2], values[3], values[4]>>
      [] OTHER -> <<>>

\* applyBoxShorthand: the parts that parse as lengths, then the switch
applyBoxShorthand(value) == BoxSides(ParsedLengths(Fields(value)))

\* the function ApplyProperty hands to applyBoxShorthand for margin; b is
\* <<>> when applyBoxShorthand does not call it
SetMargin(style, b) ==
    IF b = <<>> THEN style
    ELSE [style EXCEPT !.MarginTop = b[1], !.MarginRight = b[2],
                       !.MarginBottom = b[3], !.MarginLeft = b[4]]

\* the function ApplyProperty hands to applyBoxShorthand for padding
SetPadding(style, b) ==
    IF b = <<>> THEN style
    ELSE [style EXCEPT !.PaddingTop = b[1], !.PaddingRight = b[2],
                       !.PaddingBottom = b[3], !.PaddingLeft = b[4]]

\* the length case shared by the margin-*, padding-* and border-radius
\* properties: any unit is accepted and the number is stored as is
SetLength(style, field, value) ==
    LET l == ParseLength(value) IN
    IF l.ok THEN [style EXCEPT ![field] = l.num] ELSE style

\* ApplyProperty for the properties display, visibility, color,
\* background-color, background (plain colours), font-size, font-weight,
\* font-family, text-align, line-height, width, height, margin, margin-*,
\* padding, padding-*, border-radius and position.  The remaining properties of the switch write fields
\* that are not kept in the model's ComputedStyle and leave these unchanged.
ApplyProperty(style, property, rawValue) ==
    LET value == TrimSpace(rawValue)
        l == ParseLength(value)
        c == ParseColor(value)
    IN
    CASE property = S_display -> [style EXCEPT !.Display = value]
      [] property = S_visibility -> [style EXCEPT !.Visibility = value]
      [] property = S_color ->
            IF c.ok THEN [style EXCEPT !.Color = c.c] ELSE style
      [] property \in {S_background_color, S_background} ->
            IF Contains(value, S_gradient) THEN style
            ELSE IF c.ok THEN [style EXCEPT !.BackgroundColor = c.c]
            ELSE style
      [] property = S_font_size ->
            IF l.ok /\ l.unit = "UnitPx"
            THEN [style EXCEPT !.FontSize = l.num]
            ELSE IF l.ok /\ l.unit \in {"UnitEm", "UnitRem"}
            THEN [style EXCEPT !.FontSize = l.num * 16]
            ELSE style
      [] property = S_font_weight ->
            CASE value = S_normal -> [style EXCEPT !.FontWeight = 400]
              [] value = S_bold -> [style EXCEPT !.FontWeight = 700]
              [] value = S_lighter -> [style EXCEPT !.FontWeight = 300]
              [] value = S_bolder -> [style EXCEPT !.FontWeight = 800]
              [] OTHER -> IF l.ok THEN [style EXCEPT !.FontWeight = l.num]
                          ELSE style
      [] property = S_font_family -> [style EXCEPT !.FontFamily = value]
      [] property = S_text_align -> [style EXCEPT !.TextAlign = value]
      [] property = S_line_height ->
            IF l.ok /\ l.unit = "UnitPx"
            THEN [style EXCEPT !.LineHeight = Quot(l.num, style.FontSize)]
            ELSE IF l.ok THEN [style EXCEPT !.LineHeight = <<l.num, 1>>]
            ELSE style
      [] property = S_width ->
            IF l.ok /\ l.unit = "UnitPx" THEN [style EXCEPT !.Width = l.num]
            ELSE style
      [] property = S_height ->
            IF l.ok /\ l.unit = "UnitPx" THEN [style EXCEPT !.Height = l.num]
            ELSE style
      [] property = S_margin -> SetMargin(style, applyBoxShorthand(value))
      [] property = S_padding -> SetPadding(style, applyBoxShorthand(value))
      [] property = S_margin_top -> SetLength(style, "MarginTop", value)
      [] property = S_margin_right -> SetLength(style, "MarginRight", value)
      [] property = S_margin_bottom -> SetLength(style, "MarginBottom", value)
      [] property = S_margin_left -> SetLength(style, "MarginLeft", value)
      [] property = S_padding_top -> SetLength(style, "PaddingTop", value)
      [] property = S_padding_right -> SetLength(style, "PaddingRight", value)
      [] property = S_padding_bottom ->
            SetLength(style, "PaddingBottom", value)
      [] property = S_padding_left -> SetLength(style, "PaddingLeft", value)
      [] property = S_border_radius -> SetLength(style, "BorderRadius", value)
      [] property = S_position -> [style EXCEPT !.Position = value]
      [] OTHER -> style

\* ApplyDeclarations: ApplyProperty for each declaration, in order
RECURSIVE ApplyDeclarations(_, _)
ApplyDeclarations(style, declarations) ==
    IF declarations = <<>> THEN style
    ELSE ApplyDeclarations(
             ApplyProperty(style, declarations[1].Property,
                           declarations[1].Value),
             Tail(declarations))

\* strings.Split(s, sep) for a one-character separator
RECURSIVE Split(_, _)
Split(s, sep) ==
    LET hits == {i \in 1..Len(s) : s[i] = sep} IN
    IF hits = {} THEN <<s>>
    ELSE <<SubSeq(s, 1, Min(hits) - 1)>>
             \o Split(SubSeq(s, Min(hits) + 1, Len(s)), sep)

\* one declaration of ParseInlineStyle: <<>> when the part is skipped,
\* <<declaration>> otherwise
InlineDeclaration(rawPart) ==
    LET part == TrimSpace(rawPart)
        colonIdx == Index(part, <<":">>)
        property == TrimSpace(Slice(part, 0, colonIdx))
        value == TrimSpace(Slice(part, colonIdx + 1, Len(part)))
        important == HasSuffix(ToLower(value), S_important)
        stripped ==
            TrimSpace(TrimSuffix(TrimSpace(TrimSuffix(value, S_important)),
                                 S_IMPORTANT))
    IN  IF part = <<>> \/ colonIdx = -1 THEN <<>>
        ELSE IF property = <<>> \/ value = <<>> THEN <<>>
        ELSE <<[Property |-> ToLower(property),
                Value |-> IF important THEN stripped ELSE value,
                Important |-> important]>>

RECURSIVE InlineDeclarations(_)
InlineDeclarations(parts) ==
    IF parts = <<>> THEN <<>>
    ELSE InlineDeclaration(parts[1]) \o InlineDeclarations(Tail(parts))

\* ParseInlineStyle
ParseInlineStyle(styleAttr) == InlineDeclarations(Split(styleAttr, ";"))

----------------------------------------------------------------------------
(* Package css: selectors *)

TrimPrefix(s, p) == IF HasPrefix(s, p) THEN SubSeq(s, Len(p) + 1, Len(s)) ELSE s

\* strconv.Atoi on an optionally signed decimal numeral
Atoi(s) ==
    IF s # <<>> /\ s[1] \in {"+", "-"}
    THEN [ok |-> ParseFloat(Tail(s)).ok,
          num |-> IF s[1] = "-" THEN 0 - ParseFloat(Tail(s)).num
                  ELSE ParseFloat(Tail(s)).num]
    ELSE ParseFloat(s)

\* a Selector value; the zero value of every field is the empty string / list
Selector(type, element, class, id) ==
    [Type |-> type, Element |-> element, Class |-> class, ID |-> id,
     Attr |-> <<>>, AttrVal |-> <<>>, Parts |-> <<>>, PseudoClass |-> <<>>,
     IsChild |-> FALSE]

\* the element children of a node, in order
ElementChildren(h, n) ==
    SelectSeq(h[n].Children, LAMBDA c : h[c].Type = "NodeElement")

\* getElementIndex: 1-based index among the element siblings, 0 if absent
getElementIndex(h, n) ==
    IF h[n].Parent = Nil THEN 1
    ELSE LET sibs == ElementChildren(h, h[n].Parent)
             at == {i \in 1..Len(sibs) : sibs[i] = n}
         IN  IF at = {} THEN 0 ELSE Min(at)

\* matchesPseudoClass
matchesPseudoClass(h, n, pseudoClass) ==
    IF h[n].Parent = Nil THEN FALSE
    ELSE
    LET sibs == ElementChildren(h, h[n].Parent)
        idx == getElementIndex(h, n)
        inner == TrimSuffix(TrimPrefix(pseudoClass, S_nth_child_open),
                            S_close_paren)
    IN  CASE pseudoClass = S_first_child -> sibs # <<>> /\ sibs[1] = n
          [] pseudoClass = S_last_child -> sibs # <<>> /\ sibs[Len(sibs)] = n
          [] pseudoClass = S_only_child -> Len(sibs) = 1
          [] HasPrefix(pseudoClass, S_nth_child) /\
             pseudoClass \notin {S_first_child, S_last_child, S_only_child} ->
                CASE inner = S_odd -> idx % 2 = 1
                  [] inner = S_even -> idx % 2 = 0
                  [] OTHER -> Atoi(inner).ok /\ idx = Atoi(inner).num
          [] pseudoClass = S_even -> idx % 2 = 0
          [] pseudoClass = S_odd -> idx % 2 = 1
          [] OTHER -> TRUE

\* nodeHasClass
nodeHasClass(node, className) ==
    LET classAttr == GetAttr(node, S_class)
        classes == Fields(classAttr)
    IN  classAttr # <<>> /\ \E i \in 1..Len(classes) : classes[i] = className

RECURSIVE Matches(_, _, _)
RECURSIVE ChildChain(_, _, _, _)
RECURSIVE FindAncestor(_, _, _)
RECURSIVE DescendantChain(_, _, _, _)

\* SelectorChild: parts[i], parts[i-1], ... must match cur, cur.Parent, ...
ChildChain(h, cur, parts, i) ==
    IF i < 1 THEN TRUE
    ELSE IF cur = Nil \/ ~Matches(h, cur, parts[i]) THEN FALSE
    ELSE ChildChain(h, h[cur].Parent, parts, i - 1)

\* SelectorDescendant, inner loop: the nearest node from cur upwards that
\* matches part, or Nil
FindAncestor(h, cur, part) ==
    IF cur = Nil THEN Nil
    ELSE IF Matches(h, cur, part) THEN cur
    ELSE FindAncestor(h, h[cur].Parent, part)

\* SelectorDescendant, outer loop
DescendantChain(h, cur, parts, i) ==
    IF i < 1 THEN TRUE
    ELSE LET f == FindAncestor(h, cur, parts[i]) IN
         IF f = Nil THEN FALSE
         ELSE DescendantChain(h, h[f].Parent, parts, i - 1)

\* Selector.Matches
Matches(h, n, s) ==
    IF n = Nil \/ h[n].Type # "NodeElement" THEN FALSE
    ELSE IF s.PseudoClass # <<>> /\ ~matchesPseudoClass(h, n, s.PseudoClass)
    THEN FALSE
    ELSE
    CASE s.Type = "SelectorUniversal" -> TRUE
      [] s.Type = "SelectorElement" ->
            /\ s.Element = <<>> \/ ToLower(h[n].Tag) = ToLower(s.Element)
            /\ s.Class # <<>> => nodeHasClass(h[n], s.Class)
            /\ s.ID # <<>> => GetAttr(h[n], S_id) = s.ID
      [] s.Type = "SelectorClass" -> nodeHasClass(h[n], s.Class)
      [] s.Type = "SelectorID" -> GetAttr(h[n], S_id) = s.ID
      [] s.Type = "SelectorAttribute" ->
            IF s.AttrVal # <<>> THEN GetAttr(h[n], s.Attr) = s.AttrVal
            ELSE GetAttr(h[n], s.Attr) # <<>>
      [] s.Type = "SelectorChild" ->
            /\ s.Parts # <<>>
            /\ Matches(h, n, s.Parts[Len(s.Parts)])
            /\ ChildChain(h, h[n].Parent, s.Parts, Len(s.Parts) - 1)
      [] s.Type = "SelectorDescendant" ->
            /\ s.Parts # <<>>
            /\ Matches(h, n, s.Parts[Len(s.Parts)])
            /\ DescendantChain(h, h[n].Parent, s.Parts, Len(s.Parts) - 1)
      [] OTHER -> FALSE

Specificity(inline, ids, classes, elements) ==
    [Inline |-> inline, IDs |-> ids, Classes |-> classes,
     Elements |-> elements]

RECURSIVE CalculateSpecificity(_)
RECURSIVE SumSpecificity(_)

\* CalculateSpecificity, SelectorDescendant case: the sum over the parts
SumSpecificity(parts) ==
    IF parts = <<>> THEN Specificity(0, 0, 0, 0)
    ELSE LET a == CalculateSpecificity(parts[1])
             b == SumSpecificity(Tail(parts))
         IN  Specificity(0, a.IDs + b.IDs, a.Classes + b.Classes,
                         a.Elements + b.Elements)

\* Selector.CalculateSpecificity
CalculateSpecificity(s) ==
    CASE s.Type = "SelectorID" -> Specificity(0, 1, 0, 0)
      [] s.Type \in {"SelectorClass", "SelectorAttribute"} ->
            Specificity(0, 0, 1, 0)
      [] s.Type = "SelectorElement" ->
            Specificity(0,
                        IF s.ID # <<>> THEN 1 ELSE 0,
                        IF s.Class # <<>> THEN 1 ELSE 0,
                        IF s.Element # <<>> /\ s.Element # S_star THEN 1 ELSE 0)
      [] s.Type = "SelectorDescendant" -> SumSpecificity(s.Parts)
      [] OTHER -> Specificity(0, 0, 0, 0)

\* Specificity.Compare, with the id count left out of the comparison
CompareWithoutIDs(s, other) ==
    IF s.Inline # other.Inline
    THEN (IF s.Inline > other.Inline THEN 1 ELSE -1)
    ELSE IF s.Classes # other.Classes
    THEN (IF s.Classes > other.Classes THEN 1 ELSE -1)
    ELSE IF s.Elements # other.Elements
    THEN (IF s.Elements > other.Elements THEN 1 ELSE -1)
    ELSE 0

\* Specificity.Compare
Compare(s, other) ==
    IF s.Inline # other.Inline
    THEN (IF s.Inline > other.Inline THEN 1 ELSE -1)
    ELSE IF s.IDs # other.IDs
    THEN (IF s.IDs > other.IDs THEN 1 ELSE -1)
    ELSE IF s.Classes # other.Classes
    THEN (IF s.Classes > other.Classes THEN 1 ELSE -1)
    ELSE IF s.Elements # other.Elements
    THEN (IF s.Elements > other.Elements THEN 1 ELSE -1)
    ELSE 0

----------------------------------------------------------------------------
(* Package css: the cascade *)

\* one StyleEntry per declaration; Order is filled in by CollectEntries
DeclEntries(declarations, specificity) ==
    [i \in 1..Len(declarations) |->
        [Declarations |-> <<declarations[i]>>, Specificity |-> specificity,
         Order |-> 0, Important |-> declarations[i].Important]]

\* ComputeStyles, loop over rule.Selectors from index si on
RECURSIVE RuleEntries(_, _, _, _)
RuleEntries(h, n, rule, si) ==
    IF si > Len(rule.Selectors) THEN <<>>
    ELSE (IF Matches(h, n, rule.Selectors[si])
          THEN DeclEntries(rule.Declarations,
                           CalculateSpecificity(rule.Selectors[si]))
          ELSE <<>>)
         \o RuleEntries(h, n, rule, si + 1)

\* ComputeStyles, loop over stylesheet.Rules
RECURSIVE RulesEntries(_, _, _)
RulesEntries(h, n, rules) ==
    IF rules = <<>> THEN <<>>
    ELSE RuleEntries(h, n, rules[1], 1) \o RulesEntries(h, n, Tail(rules))

\* ComputeStyles, loop over stylesheets
RECURSIVE SheetsEntries(_, _, _)
SheetsEntries(h, n, stylesheets) ==
    IF stylesheets = <<>> THEN <<>>
    ELSE RulesEntries(h, n, stylesheets[1].Rules)
             \o SheetsEntries(h, n, Tail(stylesheets))

\* ComputeStyles, the entries of the inline style attribute
InlineEntries(node) ==
    LET inlineStyle == GetAttr(node, S_style) IN
    IF inlineStyle = <<>> THEN <<>>
    ELSE DeclEntries(ParseInlineStyle(inlineStyle), Specificity(1, 0, 0, 0))

\* ComputeStyles, all entries in the order they are appended; `order` counts up
CollectEntries(h, n, stylesheets) ==
    LET es == SheetsEntries(h, n, stylesheets) \o InlineEntries(h[n]) IN
    [i \in 1..Len(es) |-> [es[i] EXCEPT !.Order = i - 1]]

\* the less function handed to sort.SliceStable
Less(a, b) ==
    IF a.Important # b.Important THEN ~a.Important
    ELSE LET cmp == Compare(a.Specificity, b.Specificity) IN
         IF cmp # 0 THEN cmp < 0 ELSE a.Order < b.Order

\* sort.SliceStable as a stable insertion sort
RECURSIVE InsertEntry(_, _)
InsertEntry(sorted, e) ==
    IF sorted = <<>> THEN <<e>>
    ELSE IF Less(e, sorted[Len(sorted)])
    THEN Append(InsertEntry(SubSeq(sorted, 1, Len(sorted) - 1), e),
                sorted[Len(sorted)])
    ELSE Append(sorted, e)

RECURSIVE SortStable(_)
SortStable(entries) ==
    IF entries = <<>> THEN <<>>
    ELSE InsertEntry(SortStable(SubSeq(entries, 1, Len(entries) - 1)),
                     entries[Len(entries)])

\* ComputeStyles, the final loop: apply the entries in sorted order
RECURSIVE ApplyEntries(_, _)
ApplyEntries(style, entries) ==
    IF entries = <<>> THEN style
    ELSE ApplyEntries(ApplyDeclarations(style, entries[1].Declarations),
                      Tail(entries))

\* ComputeStyles
ComputeStyles(h, n, stylesheets) ==
    IF n = Nil \/ h[n].Type # "NodeElement" THEN NewComputedStyle
    ELSE ApplyEntries(DefaultForTag(h[n].Tag),
                      SortStable(CollectEntries(h, n, stylesheets)))

\* InheritFromParent
InheritFromParent(child, parent) ==
    LET c1 == IF child.FontSize = 16 /\ parent.FontSize # 16
              THEN [child EXCEPT !.FontSize = parent.FontSize] ELSE child
        c2 == IF c1.FontWeight = 400 /\ parent.FontWeight # 400
              THEN [c1 EXCEPT !.FontWeight = parent.FontWeight] ELSE c1
    IN  [c2 EXCEPT !.Color = parent.Color]

RECURSIVE applyStylesRecursive(_, _, _)
RECURSIVE ApplyToChildren(_, _, _)

\* applyStylesRecursive, the loop over node.Children
ApplyToChildren(h, children, stylesheets) ==
    IF children = <<>> THEN h
    ELSE ApplyToChildren(applyStylesRecursive(h, children[1], stylesheets),
                         Tail(children), stylesheets)

\* applyStylesRecursive: style the node, inherit from the styled parent, recurse
applyStylesRecursive(h, n, stylesheets) ==
    IF n = Nil THEN h
    ELSE
    LET own == ComputeStyles(h, n, stylesheets)
        par == h[n].Parent
        styled == IF par # Nil /\ h[par].ComputedStyle # <<>>
                  THEN InheritFromParent(own, h[par].ComputedStyle[1])
                  ELSE own
        h1 == IF h[n].Type = "NodeElement"
              THEN [h EXCEPT ![n].ComputedStyle = <<styled>>]
              ELSE h
    IN  ApplyToChildren(h1, h1[n].Children, stylesheets)

\* ApplyStylesToTree
ApplyStylesToTree(h, root, stylesheets) ==
    applyStylesRecursive(h, root, stylesheets)

----------------------------------------------------------------------------
(* The cascade at work: a document root > div > child, a list of           *)
(* stylesheets, and calls of ComputeStyles and ApplyStylesToTree.          *)

Declaration(property, value, important) ==
    [Property |-> property, Value |-> value, Important |-> important]

Rule(selectors, declarations) ==
    [Selectors |-> selectors, Declarations |-> declarations]

\* the rules the stylesheets are made of: each of the selectors *, p, .c and
\* #x with a colour of its own, once plain and once !important; a rule for
\* the parent div; a rule whose line-height precedes its font-size
RulePool ==
    { Rule(<<Selector("SelectorUniversal", S_star, <<>>, <<>>)>>,
           <<Declaration(S_color, S_red, FALSE)>>),
      Rule(<<Selector("SelectorUniversal", S_star, <<>>, <<>>)>>,
           <<Declaration(S_color, S_maroon, TRUE)>>),
      Rule(<<Selector("SelectorElement", S_p, <<>>, <<>>)>>,
           <<Declaration(S_color, S_green, FALSE)>>),
      Rule(<<Selector("SelectorElement", S_p, <<>>, <<>>)>>,
           <<Declaration(S_color, S_olive, TRUE)>>),
      Rule(<<Selector("SelectorClass", <<>>, S_c, <<>>)>>,
           <<Declaration(S_color, S_blue, FALSE)>>),
      Rule(<<Selector("SelectorClass", <<>>, S_c, <<>>)>>,
           <<Declaration(S_color, S_navy, TRUE)>>),
      Rule(<<Selector("SelectorID", <<>>, <<>>, S_x)>>,
           <<Declaration(S_color, S_purple, FALSE)>>),
      Rule(<<Selector("SelectorID", <<>>, <<>>, S_x)>>,
           <<Declaration(S_color, S_fuchsia, TRUE)>>),
      Rule(<<Selector("SelectorElement", S_div, <<>>, <<>>)>>,
           <<Declaration(S_color, S_lime, FALSE),
             Declaration(S_font_size, <<"2", "0", "p", "x">>, FALSE)>>),
      Rule(<<Selector("SelectorElement", S_p, <<>>, <<>>)>>,
           <<Declaration(S_line_height, <<"2", "4", "p", "x">>, FALSE),
             Declaration(S_font_size, <<"3", "2", "p", "x">>, FALSE)>>) }

MaxRules == 2

RuleLists == UNION {[1..k -> RulePool] : k \in 0..MaxRules}

\* #x { color: purple } .c { color: blue } p { color: green }: the three
\* kinds of selector in one stylesheet, the most specific one first
SpecificityLadder ==
    <<[Rules |->
        <<Rule(<<Selector("SelectorID", <<>>, <<>>, S_x)>>,
               <<Declaration(S_color, S_purple, FALSE)>>),
          Rule(<<Selector("SelectorClass", <<>>, S_c, <<>>)>>,
               <<Declaration(S_color, S_blue, FALSE)>>),
          Rule(<<Selector("SelectorElement", S_p, <<>>, <<>>)>>,
               <<Declaration(S_color, S_green, FALSE)>>)>>]>>

\* the stylesheet lists: up to MaxRules rules of the pool in any order, in
\* one stylesheet or with the first rule in a stylesheet of its own
StylesheetLists ==
    {<<[Rules |-> rs]>> : rs \in RuleLists}
    \cup {<<[Rules |-> <<rs[1]>>], [Rules |-> Tail(rs)]>> :
             rs \in {r \in RuleLists : Len(r) = MaxRules}}
    \cup {SpecificityLadder}

\* the opening tags the child element is made from, as <<tag name, tag text>>
ChildTags ==
    { <<S_p, <<"p">>>>,
      <<S_p, <<"p", " ", "i", "d", "=", "\"", "x", "\"", " ", "c", "l", "a", "s", "s", "=", "\"", "c", "\"">>>>,
      <<S_p, <<"p", " ", "c", "l", "a", "s", "s", "=", "\"", "b", " ", "c", "\"", " ", "s", "t", "y", "l", "e", "=", "\"", "c", "o", "l", "o", "r", ":", " ", "t", "e", "a", "l", "\"">>>>,
      <<S_p, <<"p", " ", "i", "d", "=", "\"", "x", "\"", " ", "c", "l", "a", "s", "s", "=", "\"", "c", "\"", " ", "s", "t", "y", "l", "e", "=", "\"", "c", "o", "l", "o", "r", ":", " ", "o", "r", "a", "n", "g", "e", " ", "!", "i", "m", "p", "o", "r", "t", "a", "n", "t", "\"">>>>,
      <<S_h1, <<"h", "1", " ", "c", "l", "a", "s", "s", "=", "\"", "c", "\"">>>>,
      <<S_a, <<"a", " ", "i", "d", "=", "\"", "x", "\"">>>> }

\* an element as ParseHTML creates it from an opening tag
ElementFromTag(t) ==
    [NewElement(t[1]) EXCEPT !.Attributes = ParseAttributes(t[2])]

ChildId == 3

MaxCalls == 2

CascadeInit ==
    /\ ParserIdle
    /\ FlexIdle
    /\ MoreIdle
    /\ \E t \in ChildTags :
          nodes = AppendChild(AppendChild(
                      <<NewElement(S_root), NewElement(S_div),
                        ElementFromTag(t)>>, 1, 2), 2, ChildId)
    /\ sheets \in StylesheetLists
    /\ results = <<>>

\* style := ComputeStyles(node, stylesheets) for the div or the child
CallComputeStyles ==
    /\ Len(results) < MaxCalls
    /\ \E n \in DOMAIN nodes \ {RootId} :
          results' = Append(results,
                            [node |-> n,
                             style |-> ComputeStyles(nodes, n, sheets)])
    /\ UNCHANGED <<nodes, sheets>>
    /\ UNCHANGED <<Raw, Pos, current, pc, last, origin, fc, laidOut, layouts>>
    /\ UNCHANGED moreVars

\* ApplyStylesToTree(root, stylesheets)
CallApplyStylesToTree ==
    /\ nodes' = ApplyStylesToTree(nodes, RootId, sheets)
    /\ UNCHANGED <<sheets, results>>
    /\ UNCHANGED <<Raw, Pos, current, pc, last, origin, fc, laidOut, layouts>>
    /\ UNCHANGED moreVars

CascadeNext == CallComputeStyles \/ CallApplyStylesToTree

SpecCascade == CascadeInit /\ [][CascadeNext]_vars

----------------------------------------------------------------------------
(* Properties of the cascade *)

\* the specificity a simple selector has: (inline, id, class, type)
ClaimedRank(sel) ==
    CASE sel.Type = "SelectorID" -> <<0, 1, 0, 0>>
      [] sel.Type = "SelectorClass" -> <<0, 0, 1, 0>>
      [] sel.Type = "SelectorElement" -> <<0, 0, 0, 1>>
      [] OTHER -> <<0, 0, 0, 0>>

\* the declarations that set `color` on node n to a valid value, each with
\* its key: importance, specificity, then its place in the source (stylesheet,
\* rule, selector, declaration; the inline style comes after every stylesheet)
ColorCandidates(n) ==
    LET inline == ParseInlineStyle(GetAttr(nodes[n], S_style))
        places ==
            UNION { UNION { UNION {
                { <<i, j, k, d>> :
                    d \in 1..Len(sheets[i].Rules[j].Declarations) } :
                    k \in 1..Len(sheets[i].Rules[j].Selectors) } :
                    j \in 1..Len(sheets[i].Rules) } :
                    i \in 1..Len(sheets) }
        sel(t) == sheets[t[1]].Rules[t[2]].Selectors[t[3]]
        decl(t) == sheets[t[1]].Rules[t[2]].Declarations[t[4]]
    IN
    { [key |-> <<IF decl(t).Important THEN 1 ELSE 0>>
                   \o ClaimedRank(sel(t)) \o t,
       value |-> decl(t).Value] :
        t \in { u \in places :
                  /\ Matches(nodes, n, sel(u))
                  /\ decl(u).Property = S_color
                  /\ ParseColor(decl(u).Value).ok } }
    \cup
    { [key |-> <<IF inline[d].Important THEN 1 ELSE 0, 1, 0, 0, 0,
                 Len(sheets) + 1, 0, 0, d>>,
       value |-> inline[d].Value] :
        d \in { e \in 1..Len(inline) :
                  inline[e].Property = S_color /\ ParseColor(inline[e].Value).ok } }

\* lexicographic order on keys
KeyLess(a, b) ==
    \E i \in 1..Len(a) : a[i] < b[i] /\ \A j \in 1..(i - 1) : a[j] = b[j]

Greatest(S) == CHOOSE c \in S : \A o \in S : o = c \/ KeyLess(o.key, c.key)

\* C3: in every style returned by ComputeStyles, when one or more matching
\* declarations set color to a valid value, the colour is that of the
\* declaration that is greatest by importance, then specificity (inline, id,
\* class, type), then source order.
C3_CascadeOrder ==
    \A r \in 1..Len(results) :
        LET S == ColorCandidates(results[r].node) IN
        S # {} =>
            results[r].style.Color = ParseColor(Greatest(S).value).c

\* ComputeStyles has returned a colour whose declaration is followed, later
\* in the source, by another matching declaration of a different colour
C3_Witness ==
    \E r \in 1..Len(results) :
        LET S == ColorCandidates(results[r].node) IN
        /\ S # {}
        /\ results[r].style.Color = ParseColor(Greatest(S).value).c
        /\ \E o \in S :
              /\ KeyLess(SubSeq(Greatest(S).key, 6, 9), SubSeq(o.key, 6, 9))
              /\ ParseColor(o.value).c # ParseColor(Greatest(S).value).c

InheritableFields == {"Color", "FontSize", "FontWeight"}

\* C4: after ApplyStylesToTree, an inheritable property that the child's own
\* cascade set to something other than the default for its tag still has
\* the value of the child's own cascade.
C4_InheritOnlyDefaults ==
    \A n \in DOMAIN nodes :
        (/\ nodes[n].ComputedStyle # <<>>
         /\ nodes[n].Parent # Nil
         /\ nodes[nodes[n].Parent].ComputedStyle # <<>>)
        => LET own == ComputeStyles(nodes, n, sheets)
               def == DefaultForTag(nodes[n].Tag)
               final == nodes[n].ComputedStyle[1]
           IN  \A f \in InheritableFields :
                   own[f] # def[f] => final[f] = own[f]

----------------------------------------------------------------------------
(* Package gocko/layout: the flexbox engine.  float64 values are exact     *)
(* fractions <<numerator, denominator>> with a positive denominator, in    *)
(* lowest terms, so that equal values are equal tuples.                    *)

Abs(n) == IF n < 0 THEN 0 - n ELSE n

Frac(n, d) ==
    LET g == GCD(Abs(n), Abs(d))
        sgn == IF d < 0 THEN -1 ELSE 1
    IN  <<sgn * (n \div g), sgn * (d \div g)>>

Num(n) == <<n, 1>>

Add(a, b) == Frac(a[1] * b[2] + b[1] * a[2], a[2] * b[2])

Sub(a, b) == Frac(a[1] * b[2] - b[1] * a[2], a[2] * b[2])

Mul(a, b) == Frac(a[1] * b[1], a[2] * b[2])

Div(a, b) == Frac(a[1] * b[2], a[2] * b[1])

Lt(a, b) == a[1] * b[2] < b[1] * a[2]

RECURSIVE SumSeq(_)
SumSeq(s) == IF s = <<>> THEN Num(0) ELSE Add(s[1], SumSeq(Tail(s)))

\* a FlexItem with its output fields at zero
FlexItem(base, grow, shrink, cross, marginStart, marginEnd) ==
    [MainSize |-> Num(0), CrossSize |-> Num(cross),
     FlexBaseSize |-> Num(base), FlexGrow |-> Num(grow),
     FlexShrink |-> Num(shrink), MainPos |-> Num(0), CrossPos |-> Num(0),
     FinalMainSize |-> Num(0), FinalCrossSize |-> Num(0),
     MarginMainStart |-> Num(marginStart), MarginMainEnd |-> Num(marginEnd),
     MarginCrossStart |-> Num(0), MarginCrossEnd |-> Num(0),
     AlignSelf |-> ""]

\* a FlexLine; Items holds indices into the container's Items
FlexLine(items, mainSize) ==
    [Items |-> items, MainSize |-> mainSize, CrossSize |-> Num(0),
     MainStart |-> Num(0), CrossStart |-> Num(0)]

\* OuterMainSum reading the FinalMainSize a previous Layout has left in an
\* item, where there is one, in place of the field asked for
OuterMainSumOfOutputs(c, idxs, field) ==
    SumSeq([k \in 1..Len(idxs) |->
               Add(Add(IF c.Items[idxs[k]].FinalMainSize # Num(0)
                       THEN c.Items[idxs[k]].FinalMainSize
                       ELSE c.Items[idxs[k]][field],
                       c.Items[idxs[k]].MarginMainStart),
                   c.Items[idxs[k]].MarginMainEnd)])

\* the sum, over the items of a line, of field + MarginMainStart + MarginMainEnd
OuterMainSum(c, idxs, field) ==
    SumSeq([k \in 1..Len(idxs) |->
               Add(Add(c.Items[idxs[k]][field],
                       c.Items[idxs[k]].MarginMainStart),
                   c.Items[idxs[k]].MarginMainEnd)])

\* fc.Gap * float64(n - 1) when n > 1, else 0
Gaps(c, n) == IF n > 1 THEN Mul(c.Gap, Num(n - 1)) ELSE Num(0)

\* WrapLoop starting a new line as soon as the line would be filled exactly
RECURSIVE WrapLoopAtLimit(_, _, _, _, _, _)
WrapLoopAtLimit(c, mainSize, i, lines, currentItems, currentMainSize) ==
    IF i > Len(c.Items)
    THEN IF currentItems # <<>>
         THEN Append(lines, FlexLine(currentItems, currentMainSize))
         ELSE lines
    ELSE
    LET item == c.Items[i]
        outer == Add(Add(item.FlexBaseSize, item.MarginMainStart),
                     item.MarginMainEnd)
        itemSize == IF currentItems # <<>> THEN Add(outer, c.Gap) ELSE outer
    IN  IF currentItems # <<>> /\ ~Lt(Add(currentMainSize, itemSize), mainSize)
        THEN WrapLoopAtLimit(c, mainSize, i + 1,
                      Append(lines, FlexLine(currentItems, currentMainSize)),
                      <<i>>, outer)
        ELSE WrapLoopAtLimit(c, mainSize, i + 1, lines,
                             Append(currentItems, i),
                             Add(currentMainSize, itemSize))

\* collectIntoLines, the wrapping loop from item i on
RECURSIVE WrapLoop(_, _, _, _, _, _)
WrapLoop(c, mainSize, i, lines, currentItems, currentMainSize) ==
    IF i > Len(c.Items)
    THEN IF currentItems # <<>>
         THEN Append(lines, FlexLine(currentItems, currentMainSize))
         ELSE lines
    ELSE
    LET item == c.Items[i]
        outer == Add(Add(item.FlexBaseSize, item.MarginMainStart),
                     item.MarginMainEnd)
        itemSize == IF currentItems # <<>> THEN Add(outer, c.Gap) ELSE outer
    IN  IF currentItems # <<>> /\ Lt(mainSize, Add(currentMainSize, itemSize))
        THEN WrapLoop(c, mainSize, i + 1,
                      Append(lines, FlexLine(currentItems, currentMainSize)),
                      <<i>>, outer)
        ELSE WrapLoop(c, mainSize, i + 1, lines, Append(currentItems, i),
                      Add(currentMainSize, itemSize))

\* collectIntoLines
collectIntoLines(c, mainSize) ==
    IF c.Wrap \in {"nowrap", ""}
    THEN LET all == [i \in 1..Len(c.Items) |-> i] IN
         <<FlexLine(all, Add(OuterMainSum(c, all, "FlexBaseSize"),
                             Gaps(c, Len(c.Items))))>>
    ELSE WrapLoop(c, mainSize, 1, <<>>, <<>>, Num(0))

\* an item's share of the free space, without the division by totalGrow
GrowShareUndivided(freeSpace, grow, totalGrow) == Mul(freeSpace, grow)

\* resolveFlexibleLengths: freeSpace * item.FlexGrow / totalGrow
GrowShare(freeSpace, grow, totalGrow) == Div(Mul(freeSpace, grow), totalGrow)

\* resolveFlexibleLengths: the FinalMainSize of every item of the line
resolveFlexibleLengths(c, line, availableMain) ==
    LET idxs == line.Items
        inLine == {idxs[k] : k \in 1..Len(idxs)}
        usedSpace == Add(OuterMainSum(c, idxs, "FlexBaseSize"),
                         Gaps(c, Len(idxs)))
        freeSpace == Sub(availableMain, usedSpace)
        totalGrow == SumSeq([k \in 1..Len(idxs) |-> c.Items[idxs[k]].FlexGrow])
        totalShrink ==
            SumSeq([k \in 1..Len(idxs) |->
                       Mul(c.Items[idxs[k]].FlexShrink,
                           c.Items[idxs[k]].FlexBaseSize)])
        shrunk(item) ==
            LET shrinkRatio == Div(Mul(item.FlexShrink, item.FlexBaseSize),
                                   totalShrink)
                size == Add(item.FlexBaseSize, Mul(freeSpace, shrinkRatio))
            IN  IF Lt(size, Num(0)) THEN Num(0) ELSE size
        final(item) ==
            IF Lt(Num(0), freeSpace)
            THEN IF Lt(Num(0), totalGrow)
                 THEN Add(item.FlexBaseSize,
                          GrowShare(freeSpace, item.FlexGrow, totalGrow))
                 ELSE item.FlexBaseSize
            ELSE IF Lt(freeSpace, Num(0))
            THEN IF Lt(Num(0), totalShrink) THEN shrunk(item)
                 ELSE item.FlexBaseSize
            ELSE item.FlexBaseSize
    IN  [c EXCEPT !.Items =
            [i \in 1..Len(c.Items) |->
                IF i \in inLine
                THEN [c.Items[i] EXCEPT !.FinalMainSize = final(c.Items[i])]
                ELSE c.Items[i]]]

\* Layout, step 3: resolveFlexibleLengths for each line in turn
RECURSIVE ResolveLines(_, _, _)
ResolveLines(c, li, mainSize) ==
    IF li > Len(c.Lines) THEN c
    ELSE ResolveLines(resolveFlexibleLengths(c, c.Lines[li], mainSize),
                      li + 1, mainSize)

Reverse(s) == [i \in 1..Len(s) |-> s[Len(s) + 1 - i]]

\* alignMainAxis, the positioning loop: item number i of `order` is placed
\* at pos + MarginMainStart
RECURSIVE PlaceMain(_, _, _, _, _)
PlaceMain(c, order, i, pos, spacing) ==
    IF i > Len(order) THEN c
    ELSE LET item == c.Items[order[i]]
             after == Add(Add(Add(pos, item.MarginMainStart),
                              item.FinalMainSize), item.MarginMainEnd)
             next == IF i < Len(order)
                     THEN Add(Add(after, c.Gap), spacing) ELSE after
         IN  PlaceMain([c EXCEPT !.Items[order[i]].MainPos =
                                     Add(pos, item.MarginMainStart)],
                       order, i + 1, next, spacing)

\* alignMainAxis
alignMainAxis(c, line, mainSize, isReverse) ==
    LET numItems == Len(line.Items)
        usedSpace == Add(OuterMainSum(c, line.Items, "FinalMainSize"),
                         Gaps(c, numItems))
        rawFree == Sub(mainSize, usedSpace)
        freeSpace == IF Lt(rawFree, Num(0)) THEN Num(0) ELSE rawFree
        j == c.JustifyContent
        spacing ==
            CASE j = "space-between" ->
                    IF numItems > 1 THEN Div(freeSpace, Num(numItems - 1))
                    ELSE Num(0)
              [] j = "space-around" -> Div(freeSpace, Num(numItems))
              [] j = "space-evenly" -> Div(freeSpace, Num(numItems + 1))
              [] OTHER -> Num(0)
        startPos ==
            CASE j \in {"flex-end", "end"} -> freeSpace
              [] j = "center" -> Div(freeSpace, Num(2))
              [] j = "space-around" -> Div(spacing, Num(2))
              [] j = "space-evenly" -> spacing
              [] OTHER -> Num(0)
        order == IF isReverse THEN Reverse(line.Items) ELSE line.Items
    IN  PlaceMain(c, order, 1, startPos, spacing)

\* Layout, step 4: alignMainAxis for each line in turn
RECURSIVE AlignLines(_, _, _, _)
AlignLines(c, li, mainSize, isReverse) ==
    IF li > Len(c.Lines) THEN c
    ELSE AlignLines(alignMainAxis(c, c.Lines[li], mainSize, isReverse),
                    li + 1, mainSize, isReverse)

\* the larger of the values of a sequence and `sofar`
RECURSIVE MaxOf(_, _)
MaxOf(s, sofar) ==
    IF s = <<>> THEN sofar
    ELSE MaxOf(Tail(s), IF Lt(sofar, s[1]) THEN s[1] ELSE sofar)

\* the line an item is on
LineOf(c, i) ==
    CHOOSE li \in 1..Len(c.Lines) :
        \E k \in 1..Len(c.Lines[li].Items) : c.Lines[li].Items[k] = i

\* align-self, falling back to the container's align-items
AlignOf(c, item) ==
    IF item.AlignSelf \in {"", "auto"} THEN c.AlignItems ELSE item.AlignSelf

\* determineCrossSizes
determineCrossSizes(c, availableCross) ==
    LET lines == [li \in 1..Len(c.Lines) |->
            [c.Lines[li] EXCEPT !.CrossSize =
                MaxOf([k \in 1..Len(c.Lines[li].Items) |->
                          LET item == c.Items[c.Lines[li].Items[k]] IN
                          Add(Add(item.CrossSize, item.MarginCrossStart),
                              item.MarginCrossEnd)],
                      Num(0))]]
        c1 == [c EXCEPT !.Lines = lines]
    IN  [c1 EXCEPT !.Items =
            [i \in 1..Len(c.Items) |->
                LET item == c.Items[i] IN
                [item EXCEPT !.FinalCrossSize =
                    IF AlignOf(c, item) = "stretch"
                    THEN Sub(Sub(lines[LineOf(c1, i)].CrossSize,
                                 item.MarginCrossStart), item.MarginCrossEnd)
                    ELSE item.CrossSize]]]

\* alignCrossAxis, the loop that gives each line its CrossStart
RECURSIVE PlaceLines(_, _, _, _)
PlaceLines(c, li, crossPos, lineSpacing) ==
    IF li > Len(c.Lines) THEN c
    ELSE PlaceLines([c EXCEPT !.Lines[li].CrossStart = crossPos], li + 1,
                    Add(Add(Add(crossPos, c.Lines[li].CrossSize), c.Gap),
                        lineSpacing),
                    lineSpacing)

\* alignCrossAxis
alignCrossAxis(c, availableCross) ==
    LET numLines == Len(c.Lines)
        totalCross ==
            Add(SumSeq([li \in 1..numLines |-> c.Lines[li].CrossSize]),
                Gaps(c, numLines))
        rawFree == Sub(availableCross, totalCross)
        freeCross == IF Lt(rawFree, Num(0)) THEN Num(0) ELSE rawFree
        a == c.AlignContent
        lineSpacing ==
            CASE a = "space-between" ->
                    IF numLines > 1 THEN Div(freeCross, Num(numLines - 1))
                    ELSE Num(0)
              [] a = "space-around" -> Div(freeCross, Num(numLines))
              [] OTHER -> Num(0)
        lineStart ==
            CASE a \in {"flex-end", "end"} -> freeCross
              [] a = "center" -> Div(freeCross, Num(2))
              [] a = "space-around" -> Div(lineSpacing, Num(2))
              [] OTHER -> Num(0)
        stretched ==
            IF a = "stretch" /\ numLines > 0
            THEN [c EXCEPT !.Lines =
                    [li \in 1..numLines |->
                        [c.Lines[li] EXCEPT !.CrossSize =
                            Add(@, Div(freeCross, Num(numLines)))]]]
            ELSE c
        placed == PlaceLines(stretched, 1, lineStart, lineSpacing)
        crossPos(item, line) ==
            LET align == AlignOf(c, item)
                itemSize == Add(Add(item.FinalCrossSize, item.MarginCrossStart),
                                item.MarginCrossEnd)
            IN  CASE align \in {"flex-start", "start", "stretch", "",
                                "baseline"} ->
                        Add(line.CrossStart, item.MarginCrossStart)
                  [] align \in {"flex-end", "end"} ->
                        Add(Sub(Add(line.CrossStart, line.CrossSize), itemSize),
                            item.MarginCrossStart)
                  [] align = "center" ->
                        Add(Add(line.CrossStart,
                                Div(Sub(line.CrossSize, itemSize), Num(2))),
                            item.MarginCrossStart)
                  [] OTHER -> item.CrossPos
    IN  [placed EXCEPT !.Items =
            [i \in 1..Len(c.Items) |->
                [placed.Items[i] EXCEPT !.CrossPos =
                    crossPos(placed.Items[i],
                             placed.Lines[LineOf(placed, i)])]]]

\* FlexContainer.Layout
Layout(c) ==
    IF Len(c.Items) = 0 THEN c
    ELSE
    LET isRow == c.Direction \in {"row", "row-reverse"}
        isReverse == c.Direction \in {"row-reverse", "column-reverse"}
        mainSize == IF isRow THEN c.Width ELSE c.Height
        crossSize == IF isRow THEN c.Height ELSE c.Width
        c2 == [c EXCEPT !.Lines = collectIntoLines(c, mainSize)]
        c3 == ResolveLines(c2, 1, mainSize)
        c4 == AlignLines(c3, 1, mainSize, isReverse)
        c5 == determineCrossSizes(c4, crossSize)
    IN  alignCrossAxis(c5, crossSize)

----------------------------------------------------------------------------
(* The flexbox engine at work: a container is made, items are added, and   *)
(* Layout is called.                                                       *)

\* NewFlexContainer: the container with no items and no lines
NewFlexContainer(width, height, direction, wrap, justifyContent, gap) ==
    [Width |-> Num(width), Height |-> Num(height), Direction |-> direction,
     Wrap |-> wrap, JustifyContent |-> justifyContent,
     AlignItems |-> "stretch", AlignContent |-> "flex-start",
     Gap |-> Num(gap), Items |-> <<>>, Lines |-> <<>>]

\* FlexContainer.AddItem
AddItem(c, item) == [c EXCEPT !.Items = Append(@, item)]

MaxItems == 3

\* the items added: flex basis 0 or 60, flex-grow 0, 1 or 2, with or
\* without main-axis margins
FlexItems ==
    {FlexItem(b, g, 1, 20, m[1], m[2]) :
        b \in {0, 60}, g \in {0, 1, 2}, m \in {<<0, 0>>, <<10, 5>>}}

\* 160 wide with a gap of 10: two items with basis 60 and margins fill a
\* row exactly, fewer or smaller items leave room, more overflow
FlexContainers ==
    {NewFlexContainer(160, 100, d, w, "flex-start", 10) :
        d \in {"row", "row-reverse", "column"},
        w \in {"nowrap", "wrap"}}

MaxLayouts == 2

FlexInit ==
    /\ ParserIdle
    /\ CascadeIdle
    /\ MoreIdle
    /\ nodes = <<>>
    /\ fc \in FlexContainers
    /\ laidOut = FALSE
    /\ layouts = <<>>

\* fc.AddItem(item), while the container is being filled
DoAddItem ==
    /\ ~laidOut
    /\ Len(fc.Items) < MaxItems
    /\ \E item \in FlexItems : fc' = AddItem(fc, item)
    /\ UNCHANGED <<laidOut, layouts>>
    /\ UNCHANGED <<Raw, Pos, nodes, current, pc, last, origin, sheets, results>>
    /\ UNCHANGED moreVars

\* fc.Layout()
DoLayout ==
    /\ Len(layouts) < MaxLayouts
    /\ fc' = Layout(fc)
    /\ laidOut' = TRUE
    /\ layouts' = Append(layouts, Layout(fc))
    /\ UNCHANGED <<Raw, Pos, nodes, current, pc, last, origin, sheets, results>>
    /\ UNCHANGED moreVars

FlexNext == DoAddItem \/ DoLayout

SpecFlex == FlexInit /\ [][FlexNext]_vars

----------------------------------------------------------------------------
(* Properties of the flexbox engine *)

AllItems == [i \in 1..Len(fc.Items) |-> i]

\* the container's main size minus the flex bases, margins and gaps
FreeSpace ==
    Sub(fc.Width, Add(OuterMainSum(fc, AllItems, "FlexBaseSize"),
                      Gaps(fc, Len(fc.Items))))

TotalGrow == SumSeq([i \in 1..Len(fc.Items) |-> fc.Items[i].FlexGrow])

\* a laid-out, non-wrapping row container with items and free space >= 0
LaidOutRow ==
    /\ laidOut
    /\ fc.Direction \in {"row", "row-reverse"}
    /\ fc.Wrap \in {"nowrap", ""}
    /\ Len(fc.Items) > 0
    /\ ~Lt(FreeSpace, Num(0))

\* the final main sizes, margins and gaps fill the main size exactly
Conserved ==
    Add(OuterMainSum(fc, AllItems, "FinalMainSize"), Gaps(fc, Len(fc.Items)))
        = fc.Width

\* C6 as stated: after Layout on a non-wrapping row container with free
\* space >= 0, final sizes, margins and gaps add up to the main size, for
\* every combination of flex-grow factors.
C6_Original == LaidOutRow => Conserved

\* C6: after Layout on a non-wrapping row container with free space >= 0,
\* final sizes, margins and gaps add up to the main size when some item has
\* a positive flex-grow or the free space is zero.
C6_Conservation ==
    (LaidOutRow /\ (Lt(Num(0), TotalGrow) \/ FreeSpace = Num(0))) => Conserved

\* free space was shared out between items of different flex-grow
C6_Witness ==
    /\ LaidOutRow
    /\ Lt(Num(0), FreeSpace)
    /\ Conserved
    /\ Len(fc.Items) = 3
    /\ \E i, k \in 1..Len(fc.Items) :
          /\ Lt(Num(0), fc.Items[i].FlexGrow)
          /\ Lt(fc.Items[i].FlexGrow, fc.Items[k].FlexGrow)
          /\ Lt(fc.Items[i].FlexBaseSize, fc.Items[i].FinalMainSize)

----------------------------------------------------------------------------
(* More properties of ParseHTML *)

\* the offset where the text of the raw-content element made by the last
\* iteration starts: just after its opening tag
RawTextStart == NextToken(Raw, last.posBefore).pos

\* the offset of the first closing tag of that element, in any letter case,
\* at or after RawTextStart; -1 if there is none
RawTextEnd ==
    LET rest == ToLower(Slice(Raw, RawTextStart, Len(Raw)))
        i == Index(rest, <<"<", "/">> \o last.tag)
    IN  IF i = -1 THEN -1 ELSE RawTextStart + i

RawText == Slice(Raw, RawTextStart, RawTextEnd)

\* the last iteration made a script or style element whose closing tag exists
RawElementClosed == last.kind = "raw" /\ RawTextEnd # -1

\* the element made by the last iteration has the single Text child `text`
HasOnlyText(text) ==
    /\ Len(nodes[last.newNode].Children) = 1
    /\ nodes[nodes[last.newNode].Children[1]].Type = "NodeText"
    /\ nodes[nodes[last.newNode].Children[1]].Content = text

\* what holds of every script or style element throughout the parse: at
\* most one child, a Text, and the insertion point is never inside it
RawElementsAreClosed ==
    \A n \in DOMAIN nodes :
        origin[n].branch = "raw" =>
            /\ Len(nodes[n].Children) <= 1
            /\ \A k \in 1..Len(nodes[n].Children) :
                  nodes[nodes[n].Children[k]].Type = "NodeText"
            /\ current # n

\* C11 as stated: the text between the opening tag of a script or style
\* element and its first closing tag (in any letter case) is stored verbatim
\* as the element's single Text child; the tokenizer resumes after that
\* closing tag, the element has at most one child and the insertion point
\* does not move into it.
C11_Original ==
    /\ RawElementsAreClosed
    /\ (RawElementClosed /\ RawText # <<>>) =>
          /\ HasOnlyText(RawText)
          /\ Pos >= RawTextEnd + Len(last.tag) + 2
          /\ current = last.curBefore

\* C11: as above when the text has a character that is not white space; a
\* text that is empty or all white space gives the element no child.
C11_RawContent ==
    /\ RawElementsAreClosed
    /\ RawElementClosed =>
          /\ TrimSpace(RawText) # <<>> => HasOnlyText(RawText)
          /\ TrimSpace(RawText) = <<>> => nodes[last.newNode].Children = <<>>
          /\ Pos >= RawTextEnd + Len(last.tag) + 2
          /\ current = last.curBefore

\* a script element whose text holds a tag, closed by an upper-case tag
C11_Witness ==
    /\ RawElementClosed
    /\ Contains(RawText, <<"<">>)
    /\ HasOnlyText(RawText)
    /\ Slice(Raw, RawTextEnd, RawTextEnd + 3) = <<"<", "/", "S">>

RECURSIVE GetElementById(_, _, _)
RECURSIVE FirstWithId(_, _, _)

\* GetElementById, the loop over n.Children: the first non-nil result
FirstWithId(h, children, id) ==
    IF children = <<>> THEN Nil
    ELSE LET found == GetElementById(h, children[1], id) IN
         IF found # Nil THEN found ELSE FirstWithId(h, Tail(children), id)

\* Node.GetElementById
GetElementById(h, n, id) ==
    IF n = Nil THEN Nil
    ELSE IF h[n].Type = "NodeElement" /\ GetAttr(h[n], S_id) = id THEN n
    ELSE FirstWithId(h, h[n].Children, id)

\* node n is a Text with this content
IsText(n, content) ==
    nodes[n].Type = "NodeText" /\ nodes[n].Content = content

\* node n is an element with this tag and these many children
IsElement(n, tag, count) ==
    /\ nodes[n].Type = "NodeElement"
    /\ nodes[n].Tag = tag
    /\ Len(nodes[n].Children) = count

\* C12: parsing <div id="a"><p>Hello <b>World</b></p></div> gives a tree
\* where GetElementById("a") is the div, whose single child is a p whose
\* children are the text "Hello " (with its trailing space) and a b element
\* holding the text "World".
C12_HelloWorldTree ==
    (Raw = HelloDoc /\ pc = "done") =>
        LET div == GetElementById(nodes, RootId, S_a) IN
        /\ div # Nil
        /\ IsElement(div, S_div, 1)
        /\ LET p == nodes[div].Children[1] IN
           /\ IsElement(p, S_p, 2)
           /\ IsText(nodes[p].Children[1], <<"H", "e", "l", "l", "o", " ">>)
           /\ LET b == nodes[p].Children[2] IN
              /\ IsElement(b, S_b, 1)
              /\ IsText(nodes[b].Children[1], <<"W", "o", "r", "l", "d">>)

----------------------------------------------------------------------------
(* Package gocko/css/values and package properties: the second CSS engine. *)
(* A values.Length is a record [Value, Unit]; float64 values are whole     *)
(* numbers for the lengths used here.                                      *)

S_auto == <<"a", "u", "t", "o">>
S_none == <<"n", "o", "n", "e">>
S_abc == <<"a", "b", "c">>
S_bogus == <<"b", "o", "g", "u", "s">>
S_min_width == <<"m", "i", "n", "-", "w", "i", "d", "t", "h">>
S_max_width == <<"m", "a", "x", "-", "w", "i", "d", "t", "h">>
S_min_height == <<"m", "i", "n", "-", "h", "e", "i", "g", "h", "t">>
S_max_height == <<"m", "a", "x", "-", "h", "e", "i", "g", "h", "t">>
S_box_sizing == <<"b", "o", "x", "-", "s", "i", "z", "i", "n", "g">>
S_border_box == <<"b", "o", "r", "d", "e", "r", "-", "b", "o", "x">>
S_content_box == <<"c", "o", "n", "t", "e", "n", "t", "-", "b", "o", "x">>
S_border_width == <<"b", "o", "r", "d", "e", "r", "-", "w", "i", "d", "t", "h">>
S_vmin == <<"v", "m", "i", "n">>
S_vmax == <<"v", "m", "a", "x">>
S_ch == <<"c", "h">>
S_ex == <<"e", "x">>
S_pt == <<"p", "t">>
S_cm == <<"c", "m">>
S_mm == <<"m", "m">>
S_in == <<"i", "n">>
S_start == <<"s", "t", "a", "r", "t">>
S_10px == <<"1", "0", "p", "x">>
S_5px == <<"5", "p", "x">>
S_7px == <<"7", "p", "x">>
S_20px == <<"2", "0", "p", "x">>
S_1px == <<"1", "p", "x">>
S_2rem == <<"2", "r", "e", "m">>
S_50pct == <<"5", "0", "%">>
S_10px_5px == <<"1", "0", "p", "x", " ", "5", "p", "x">>
S_1px_2px_3px == <<"1", "p", "x", " ", "2", "p", "x", " ", "3", "p", "x">>
S_1px_2px_3px_4px == <<"1", "p", "x", " ", "2", "p", "x", " ", "3", "p", "x", " ", "4", "p", "x">>
S_10px_abc_5px == <<"1", "0", "p", "x", " ", "a", "b", "c", " ", "5", "p", "x">>

Length(value, unit) == [Value |-> value, Unit |-> unit]

Zero == Length(0, "UnitPx")

Auto == Length(0, "UnitAuto")

Px(value) == Length(value, "UnitPx")

\* the units map of values.ParseLength
ValuesUnits ==
    (S_px :> "UnitPx") @@ (S_em :> "UnitEm") @@ (S_rem :> "UnitRem") @@
    (S_pct :> "UnitPercent") @@ (S_vw :> "UnitVw") @@ (S_vh :> "UnitVh") @@
    (S_vmin :> "UnitVmin") @@ (S_vmax :> "UnitVmax") @@ (S_ch :> "UnitCh") @@
    (S_ex :> "UnitEx") @@ (S_pt :> "UnitPt") @@ (S_cm :> "UnitCm") @@
    (S_mm :> "UnitMm") @@ (S_in :> "UnitIn")

\* values.ParseLength: the set of (Length, error) results it can return.
\* The loop ranges over a Go map, whose iteration order is unspecified, and
\* returns at the first suffix the text ends with, whether or not the rest
\* is a number: any suffix the text ends with can be that first one.
ValuesParseLength(text) ==
    LET s == TrimSpace(ToLower(text))
        matching == {u \in DOMAIN ValuesUnits : HasSuffix(s, u)}
    IN  IF s = <<>> \/ s = S_zero THEN {[l |-> Zero, ok |-> TRUE]}
        ELSE IF s = S_auto THEN {[l |-> Auto, ok |-> TRUE]}
        ELSE IF s = S_none THEN {[l |-> Length(0, "UnitNone"), ok |-> TRUE]}
        ELSE IF matching # {}
        THEN {LET f == ParseFloat(TrimSuffix(s, u)) IN
              IF f.ok THEN [l |-> Length(f.num, ValuesUnits[u]), ok |-> TRUE]
              ELSE [l |-> Zero, ok |-> FALSE] : u \in matching}
        ELSE IF ParseFloat(s).ok
        THEN {[l |-> Px(ParseFloat(s).num), ok |-> TRUE]}
        ELSE {[l |-> Zero, ok |-> FALSE]}

\* values.ParseColor: the named-colour lookup; "#", "rgb" and "hsl" texts are
\* not part of the value alphabets used here, any other text is an error
ValuesParseColor(text) ==
    LET s == TrimSpace(ToLower(text))
        named == (S_black :> RGBA(0, 0, 0, 255)) @@
                 (S_red :> RGBA(255, 0, 0, 255)) @@
                 (S_blue :> RGBA(0, 0, 255, 255))
    IN  IF s \in DOMAIN named THEN [c |-> named[s], ok |-> TRUE]
        ELSE [c |-> RGBA(0, 0, 0, 0), ok |-> FALSE]

\* values.NewComputedStyle, with the fields that the properties modelled in
\* ParseProperty write and that ComputeBoxDimensions reads
ValuesNewComputedStyle ==
    [Width |-> Auto, Height |-> Auto,
     MinWidth |-> Zero, MaxWidth |-> Length(0, "UnitNone"),
     MinHeight |-> Zero, MaxHeight |-> Length(0, "UnitNone"),
     MarginTop |-> Zero, MarginRight |-> Zero,
     MarginBottom |-> Zero, MarginLeft |-> Zero,
     PaddingTop |-> Zero, PaddingRight |-> Zero,
     PaddingBottom |-> Zero, PaddingLeft |-> Zero,
     BorderTopWidth |-> Zero, BorderRightWidth |-> Zero,
     BorderBottomWidth |-> Zero, BorderLeftWidth |-> Zero,
     BoxSizing |-> S_content_box, Display |-> S_inline,
     Color |-> RGBA(0, 0, 0, 255), FontSize |-> 16]

\* parseLength: values.ParseLength with the error dropped
parseLength(text) == {o.l : o \in ValuesParseLength(text)}

\* parseColor: values.ParseColor with the error dropped
parseColor(text) == ValuesParseColor(text).c

\* parseBoxShorthand: the <<top, right, bottom, left>> it can return
parseBoxShorthand(value) ==
    LET parts == Fields(value) IN
    CASE Len(parts) = 1 -> {<<v, v, v, v>> : v \in parseLength(parts[1])}
      [] Len(parts) = 2 ->
            {<<tb, lr, tb, lr>> : tb \in parseLength(parts[1]),
                                  lr \in parseLength(parts[2])}
      [] Len(parts) = 3 ->
            {<<t, lr, b, lr>> : t \in parseLength(parts[1]),
                                lr \in parseLength(parts[2]),
                                b \in parseLength(parts[3])}
      [] Len(parts) = 4 ->
            {<<t, r, b, l>> : t \in parseLength(parts[1]),
                              r \in parseLength(parts[2]),
                              b \in parseLength(parts[3]),
                              l \in parseLength(parts[4])}
      [] OTHER -> {<<Zero, Zero, Zero, Zero>>}

\* ParseProperty for the properties width, height, min-*, max-*, margin,
\* margin-*, padding, padding-*, border-width, box-sizing, display and color:
\* the styles it can leave behind.  The remaining cases of the switch write
\* fields that are not kept here; a property outside the switch writes nothing.
ParseProperty(style, rawProperty, rawValue) ==
    LET property == ToLower(TrimSpace(rawProperty))
        value == TrimSpace(rawValue)
        Set(field) == {[style EXCEPT ![field] = l] : l \in parseLength(value)}
    IN
    CASE property = S_width -> Set("Width")
      [] property = S_height -> Set("Height")
      [] property = S_min_width -> Set("MinWidth")
      [] property = S_max_width -> Set("MaxWidth")
      [] property = S_min_height -> Set("MinHeight")
      [] property = S_max_height -> Set("MaxHeight")
      [] property = S_margin ->
            {[style EXCEPT !.MarginTop = b[1], !.MarginRight = b[2],
                           !.MarginBottom = b[3], !.MarginLeft = b[4]] :
                b \in parseBoxShorthand(value)}
      [] property = S_margin_top -> Set("MarginTop")
      [] property = S_margin_right -> Set("MarginRight")
      [] property = S_margin_bottom -> Set("MarginBottom")
      [] property = S_margin_left -> Set("MarginLeft")
      [] property = S_padding ->
            {[style EXCEPT !.PaddingTop = b[1], !.PaddingRight = b[2],
                           !.PaddingBottom = b[3], !.PaddingLeft = b[4]] :
                b \in parseBoxShorthand(value)}
      [] property = S_padding_top -> Set("PaddingTop")
      [] property = S_padding_right -> Set("PaddingRight")
      [] property = S_padding_bottom -> Set("PaddingBottom")
      [] property = S_padding_left -> Set("PaddingLeft")
      [] property = S_border_width ->
            {[style EXCEPT !.BorderTopWidth = w, !.BorderRightWidth = w,
                           !.BorderBottomWidth = w, !.BorderLeftWidth = w] :
                w \in parseLength(value)}
      [] property = S_box_sizing -> {[style EXCEPT !.BoxSizing = value]}
      [] property = S_display -> {[style EXCEPT !.Display = value]}
      [] property = S_color -> {[style EXCEPT !.Color = parseColor(value)]}
      [] OTHER -> {style}

----------------------------------------------------------------------------
(* Package gocko/box: ComputeBoxDimensions *)

\* ResolveContext as ComputeBoxDimensions builds it
ResolveContext(style, containingWidth, containingHeight) ==
    [FontSize |-> style.FontSize, RootFontSize |-> 16,
     ParentWidth |-> containingWidth, ParentHeight |-> containingHeight,
     ViewportWidth |-> 1024, ViewportHeight |-> 768]

\* Length.Resolve for px, em, rem, %, auto and none.  The percentages and
\* containing sizes used here give whole quotients.  The other units do not
\* arise from the values used here.
Resolve(l, ctx) ==
    CASE l.Unit = "UnitPx" -> l.Value
      [] l.Unit = "UnitEm" -> l.Value * ctx.FontSize
      [] l.Unit = "UnitRem" -> l.Value * ctx.RootFontSize
      [] l.Unit = "UnitPercent" -> (l.Value * ctx.ParentWidth) \div 100
      [] l.Unit \in {"UnitAuto", "UnitNone"} -> 0
      [] OTHER -> l.Value

\* Length.ResolveHeight
ResolveHeight(l, ctx) ==
    IF l.Unit = "UnitPercent" THEN (l.Value * ctx.ParentHeight) \div 100
    ELSE Resolve(l, ctx)

\* Length.IsAuto
IsAuto(l) == l.Unit = "UnitAuto"

\* the min-* then max-* clamp ComputeBoxDimensions applies to a content size
Clamp(size, minL, maxL, minV, maxV) ==
    LET a == IF minL.Unit # "UnitNone" /\ size < minV THEN minV ELSE size
    IN  IF maxL.Unit # "UnitNone" /\ a > maxV THEN maxV ELSE a

\* ComputeBoxDimensions(style, containingWidth, containingHeight)
ComputeBoxDimensions(style, containingWidth, containingHeight) ==
    LET ctx == ResolveContext(style, containingWidth, containingHeight)
        mt == Resolve(style.MarginTop, ctx)
        mr == Resolve(style.MarginRight, ctx)
        mb == Resolve(style.MarginBottom, ctx)
        ml == Resolve(style.MarginLeft, ctx)
        pt == Resolve(style.PaddingTop, ctx)
        pr == Resolve(style.PaddingRight, ctx)
        pb == Resolve(style.PaddingBottom, ctx)
        pl == Resolve(style.PaddingLeft, ctx)
        bt == Resolve(style.BorderTopWidth, ctx)
        br == Resolve(style.BorderRightWidth, ctx)
        bb == Resolve(style.BorderBottomWidth, ctx)
        bl == Resolve(style.BorderLeftWidth, ctx)
        resolvedWidth == Resolve(style.Width, ctx)
        width == IF IsAuto(style.Width)
                 THEN containingWidth - (ml + mr) - (bl + br) - (pl + pr)
                 ELSE IF style.BoxSizing = S_border_box
                 THEN Max({resolvedWidth - (pl + pr) - (bl + br), 0})
                 ELSE resolvedWidth
        resolvedHeight == ResolveHeight(style.Height, ctx)
        height == IF IsAuto(style.Height) THEN 0
                  ELSE IF style.BoxSizing = S_border_box
                  THEN Max({resolvedHeight - (pt + pb) - (bt + bb), 0})
                  ELSE resolvedHeight
    IN  [MarginTop |-> mt, MarginRight |-> mr, MarginBottom |-> mb,
         MarginLeft |-> ml, PaddingTop |-> pt, PaddingRight |-> pr,
         PaddingBottom |-> pb, PaddingLeft |-> pl, BorderTop |-> bt,
         BorderRight |-> br, BorderBottom |-> bb, BorderLeft |-> bl,
         ContentWidth |-> Clamp(width, style.MinWidth, style.MaxWidth,
                                Resolve(style.MinWidth, ctx),
                                Resolve(style.MaxWidth, ctx)),
         ContentHeight |-> Clamp(height, style.MinHeight, style.MaxHeight,
                                 ResolveHeight(style.MinHeight, ctx),
                                 ResolveHeight(style.MaxHeight, ctx))]

\* ComputedStyle.ResolveHeight
StyleResolveHeight(style, ctx) ==
    IF IsAuto(style.Height) THEN -1 ELSE ResolveHeight(style.Height, ctx)

----------------------------------------------------------------------------
(* Applying declarations to a style of each engine *)

\* the declarations applied: valid and invalid lengths and colours, the
\* box shorthands with one to four values, and a property no engine knows
PropDecls ==
    {<<S_width, S_10px>>, <<S_width, S_abc>>, <<S_height, S_zero>>,
     <<S_height, S_20px>>, <<S_height, S_auto>>, <<S_height, S_abc>>,
     <<S_height, S_50pct>>, <<S_max_height, S_5px>>,
     <<S_margin, S_7px>>, <<S_margin, S_10px_5px>>,
     <<S_margin, S_1px_2px_3px>>, <<S_margin, S_1px_2px_3px_4px>>,
     <<S_margin, S_abc>>, <<S_margin, S_10px_abc_5px>>,
     <<S_padding, S_10px_5px>>, <<S_padding, S_1px_2px_3px>>,
     <<S_padding_top, S_5px>>, <<S_margin_left, S_2rem>>,
     <<S_border_width, S_1px>>, <<S_box_sizing, S_border_box>>,
     <<S_color, S_red>>, <<S_color, S_abc>>, <<S_bogus, S_10px>>}

\* the containing block sizes handed to ComputeBoxDimensions
ContainingWidths == {200}

ContainingHeights == {100, 200}

MaxApplied == 2

PropsInit ==
    /\ ParserIdle
    /\ CascadeIdle
    /\ FlexIdle
    /\ SheetIdle
    /\ SelectIdle
    /\ BrowserIdle
    /\ nodes = <<>>
    /\ applied = [css |-> NewComputedStyle, gocko |-> ValuesNewComputedStyle,
                  by |-> "none", property |-> <<>>, value |-> <<>>,
                  cssBefore |-> NewComputedStyle,
                  gockoBefore |-> ValuesNewComputedStyle,
                  box |-> <<>>, containing |-> <<>>, calls |-> 0]

\* css.ApplyProperty(style, property, value)
DoApplyProperty ==
    /\ applied.calls < MaxApplied
    /\ \E d \in PropDecls :
          applied' = [applied EXCEPT
                         !.css = ApplyProperty(applied.css, d[1], d[2]),
                         !.cssBefore = applied.css,
                         !.by = "ApplyProperty",
                         !.property = d[1], !.value = d[2],
                         !.calls = applied.calls + 1]
    /\ UNCHANGED parseVars
    /\ UNCHANGED otherVars
    /\ UNCHANGED <<stylesheet, matched, browser>>

\* properties.ParseProperty(style, property, value)
DoParseProperty ==
    /\ applied.calls < MaxApplied
    /\ \E d \in PropDecls :
          \E after \in ParseProperty(applied.gocko, d[1], d[2]) :
              applied' = [applied EXCEPT
                             !.gocko = after,
                             !.gockoBefore = applied.gocko,
                             !.by = "ParseProperty",
                             !.property = d[1], !.value = d[2],
                             !.calls = applied.calls + 1]
    /\ UNCHANGED parseVars
    /\ UNCHANGED otherVars
    /\ UNCHANGED <<stylesheet, matched, browser>>

\* box := ComputeBoxDimensions(style, containingWidth, containingHeight)
DoComputeBoxDimensions ==
    /\ \E w \in ContainingWidths, h \in ContainingHeights :
          applied' = [applied EXCEPT
                         !.box = ComputeBoxDimensions(applied.gocko, w, h),
                         !.containing = <<w, h>>,
                         !.by = "ComputeBoxDimensions"]
    /\ UNCHANGED parseVars
    /\ UNCHANGED otherVars
    /\ UNCHANGED <<stylesheet, matched, browser>>

PropsNext == DoApplyProperty \/ DoParseProperty \/ DoComputeBoxDimensions

SpecProps == PropsInit /\ [][PropsNext]_vars

----------------------------------------------------------------------------
(* Properties of the property parsers *)

\* a property name that neither ApplyProperty's nor ParseProperty's switch has
UnknownProperties == {S_bogus}

\* the properties of PropDecls whose value is one length, a list of lengths,
\* a colour
LengthProperties ==
    {S_width, S_height, S_max_height, S_padding_top, S_margin_left,
     S_border_width}

BoxShorthands == {S_margin, S_padding}

ColorProperties == {S_color}

\* css.ParseLength rejects the text
CssRejects(part) == ~ParseLength(part).ok

\* values.ParseLength rejects the text whatever the map order
ValuesRejects(part) == \A o \in ValuesParseLength(part) : ~o.ok

\* the declaration (property, value) is one that css.ApplyProperty has to drop:
\* unknown property, a length or colour that does not parse, a shorthand of
\* which no value parses
CssInvalid(property, value) ==
    \/ property \in UnknownProperties
    \/ property \in LengthProperties /\ CssRejects(value)
    \/ /\ property \in BoxShorthands
       /\ \A i \in DOMAIN Fields(value) : CssRejects(Fields(value)[i])
    \/ property \in ColorProperties /\ ~ParseColor(value).ok

\* the same for properties.ParseProperty
ValuesInvalid(property, value) ==
    \/ property \in UnknownProperties
    \/ property \in LengthProperties /\ ValuesRejects(value)
    \/ /\ property \in BoxShorthands
       /\ \A i \in DOMAIN Fields(value) : ValuesRejects(Fields(value)[i])
    \/ property \in ColorProperties /\ ~ValuesParseColor(value).ok

\* C13: a declaration with an unknown property, or with a length or colour
\* that cannot be parsed, leaves every field of the ComputedStyle as it was
\* before, in css.ApplyProperty and in properties.ParseProperty alike.
C13_InvalidDeclarationIgnored ==
    /\ (applied.by = "ApplyProperty"
        /\ CssInvalid(applied.property, applied.value))
           => applied.css = applied.cssBefore
    /\ (applied.by = "ParseProperty"
        /\ ValuesInvalid(applied.property, applied.value))
           => applied.gocko = applied.gockoBefore

\* which of the given values each side <<top, right, bottom, left>> takes,
\* by the number of values given
SideValue ==
    (1 :> <<1, 1, 1, 1>>) @@ (2 :> <<1, 2, 1, 2>>) @@
    (3 :> <<1, 2, 3, 2>>) @@ (4 :> <<1, 2, 3, 4>>)

CssSides(style, property) ==
    IF property = S_margin
    THEN <<style.MarginTop, style.MarginRight, style.MarginBottom,
           style.MarginLeft>>
    ELSE <<style.PaddingTop, style.PaddingRight, style.PaddingBottom,
           style.PaddingLeft>>

\* the last call applied a margin or padding shorthand of 1 to 4 values
ShorthandApplied(by) ==
    /\ applied.by = by
    /\ applied.property \in BoxShorthands
    /\ Len(Fields(applied.value)) \in DOMAIN SideValue

C17_AutoHeightSentinel ==
    (applied.by = "ComputeBoxDimensions" /\ IsAuto(applied.gocko.Height))
        => /\ applied.box.ContentHeight # 0
           /\ applied.box.ContentHeight #
                  ComputeBoxDimensions([applied.gocko EXCEPT !.Height = Zero],
                                       applied.containing[1],
                                       applied.containing[2]).ContentHeight

----------------------------------------------------------------------------
(* Package css: parsing selectors and stylesheets *)

\* strings.Trim(s, "\"'")
RECURSIVE TrimQuotes(_)
TrimQuotes(s) ==
    IF s # <<>> /\ s[1] \in {"\"", "'"} THEN TrimQuotes(Tail(s))
    ELSE IF s # <<>> /\ s[Len(s)] \in {"\"", "'"}
    THEN TrimQuotes(SubSeq(s, 1, Len(s) - 1))
    ELSE s

\* parseSimpleSelector
parseSimpleSelector(rawText) ==
    LET trimmed == TrimSpace(rawText)
        colon == Index(trimmed, <<":">>)
        pseudoClass == IF colon # -1
                       THEN Slice(trimmed, colon + 1, Len(trimmed)) ELSE <<>>
        text == IF colon # -1 THEN Slice(trimmed, 0, colon) ELSE trimmed
        dot == Index(text, <<".">>)
        hash == Index(text, <<"#">>)
        content == Slice(text, 1, Len(text) - 1)
        eqIdx == Index(content, <<"=">>)
        sel == IF text = S_star \/ text = <<>>
               THEN Selector("SelectorUniversal", S_star, <<>>, <<>>)
               ELSE IF HasPrefix(text, <<"#">>)
               THEN Selector("SelectorID", <<>>, <<>>, Slice(text, 1, Len(text)))
               ELSE IF HasPrefix(text, <<".">>)
               THEN Selector("SelectorClass", <<>>, Slice(text, 1, Len(text)),
                             <<>>)
               ELSE IF dot > 0
               THEN Selector("SelectorElement", Slice(text, 0, dot),
                             Slice(text, dot + 1, Len(text)), <<>>)
               ELSE IF hash > 0
               THEN Selector("SelectorElement", Slice(text, 0, hash), <<>>,
                             Slice(text, hash + 1, Len(text)))
               ELSE IF HasPrefix(text, <<"[">>) /\ HasSuffix(text, <<"]">>)
               THEN IF eqIdx # -1
                    THEN [Selector("SelectorAttribute", <<>>, <<>>, <<>>)
                             EXCEPT !.Attr = Slice(content, 0, eqIdx),
                                    !.AttrVal =
                                        TrimQuotes(Slice(content, eqIdx + 1,
                                                         Len(content)))]
                    ELSE [Selector("SelectorAttribute", <<>>, <<>>, <<>>)
                             EXCEPT !.Attr = content]
               ELSE Selector("SelectorElement", ToLower(text), <<>>, <<>>)
    IN  [sel EXCEPT !.PseudoClass = pseudoClass]

\* the selectorParts of the child branch of ParseSelector
RECURSIVE ChildParts(_)
ChildParts(parts) ==
    IF parts = <<>> THEN <<>>
    ELSE (IF TrimSpace(Head(parts)) # <<>>
          THEN <<parseSimpleSelector(TrimSpace(Head(parts)))>> ELSE <<>>)
         \o ChildParts(Tail(parts))

\* the selectorParts of the descendant branch of ParseSelector
RECURSIVE DescendantParts(_)
DescendantParts(parts) ==
    IF parts = <<>> THEN <<>>
    ELSE (IF Head(parts) \in {<<"+">>, <<"~">>} THEN <<>>
          ELSE <<parseSimpleSelector(Head(parts))>>)
         \o DescendantParts(Tail(parts))

\* ParseSelector
ParseSelector(rawText) ==
    LET text == TrimSpace(rawText)
        childParts == ChildParts(Split(text, ">"))
        parts == Fields(text)
        descendantParts == DescendantParts(parts)
    IN  IF Contains(text, <<">">>) /\ childParts # <<>>
        THEN [Selector("SelectorChild", <<>>, <<>>, <<>>)
                 EXCEPT !.Parts = childParts, !.IsChild = TRUE]
        ELSE IF /\ Contains(text, <<" ">>)
                /\ ~HasPrefix(text, <<".">>)
                /\ ~HasPrefix(text, <<"#">>)
                /\ Len(parts) > 1
                /\ descendantParts # <<>>
        THEN [Selector("SelectorDescendant", <<>>, <<>>, <<>>)
                 EXCEPT !.Parts = descendantParts]
        ELSE parseSimpleSelector(text)

\* the loop of ParseSelectors over the comma-separated parts
RECURSIVE SelectorsOf(_)
SelectorsOf(parts) ==
    IF parts = <<>> THEN <<>>
    ELSE LET part == TrimSpace(Head(parts))
             sel == ParseSelector(part)
         IN  (IF part # <<>> /\ (sel.Type # "SelectorUniversal"
                                 \/ sel.Element = S_star)
              THEN <<sel>> ELSE <<>>)
             \o SelectorsOf(Tail(parts))

\* ParseSelectors
ParseSelectors(text) == SelectorsOf(Split(text, ","))

\* removeComments, from offset i on.  The loop writes the bytes one by one
\* until css[i] = '/' and css[i+1] = '*'; `start` is the distance from i to
\* that place (-1: there is none), so the bytes before it are written here
\* in one step.  `end` is strings.Index(css[i+2:], "*/") at the comment.
RECURSIVE removeCommentsFrom(_, _)
RECURSIVE WriteUntilComment(_, _, _)
RECURSIVE SkipComment(_, _, _)
removeCommentsFrom(css, i) ==
    IF i >= Len(css) THEN <<>>
    ELSE WriteUntilComment(css, i,
                           Index(Slice(css, i, Len(css)), <<"/", "*">>))

WriteUntilComment(css, i, start) ==
    IF start = -1 THEN Slice(css, i, Len(css))
    ELSE Slice(css, i, i + start)
            \o SkipComment(css, i + start,
                           Index(Slice(css, i + start + 2, Len(css)),
                                 <<"*", "/">>))

SkipComment(css, i, end) ==
    IF end = -1 THEN <<>> ELSE removeCommentsFrom(css, i + 2 + end + 2)

removeComments(css) == removeCommentsFrom(css, 0)

isWhitespace(c) == c \in {" ", "\t", "\n", "\r"}

\* the loop `for pos < len(css) && isWhitespace(css[pos])`
RECURSIVE SkipWhitespace(_, _)
SkipWhitespace(css, pos) ==
    IF pos < Len(css) /\ isWhitespace(css[pos + 1])
    THEN SkipWhitespace(css, pos + 1) ELSE pos

\* the loop of findMatchingBrace, at offset i with the given depth
RECURSIVE BraceScan(_, _, _)
BraceScan(css, i, depth) ==
    IF i >= Len(css) THEN -1
    ELSE IF css[i + 1] = "{" THEN BraceScan(css, i + 1, depth + 1)
    ELSE IF css[i + 1] = "}"
    THEN IF depth - 1 = 0 THEN i ELSE BraceScan(css, i + 1, depth - 1)
    ELSE BraceScan(css, i + 1, depth)

findMatchingBrace(css, start) == BraceScan(css, start + 1, 1)

\* the append at the end of an iteration of ParseStylesheet, whatever the
\* selectors and declarations are
AppendRuleUnchecked(rules, selectors, declarations) ==
    Append(rules, Rule(selectors, declarations))

\* the append at the end of an iteration of ParseStylesheet
AppendRule(rules, selectors, declarations) ==
    IF Len(selectors) > 0 /\ Len(declarations) > 0
    THEN Append(rules, Rule(selectors, declarations))
    ELSE rules

----------------------------------------------------------------------------
(* ParseStylesheet at work, one iteration of its loop at a time *)

S_rule_p == <<"p", "{", "c", "o", "l", "o", "r", ":", "r", "e", "d", "}">>
S_rule_two == <<".", "c", ",", "#", "x", "{", "c", "o", "l", "o", "r", ":", "b", "l", "u", "e", ";", "w", "i", "d", "t", "h", ":", "1", "p", "x", "}">>
S_rule_empty == <<"a", "{", "}">>
S_rule_comma == <<",", "{", "c", "o", "l", "o", "r", ":", "r", "e", "d", "}">>
S_rule_novalue == <<"b", "{", "c", "o", "l", "o", "r", "}">>
S_rule_nested == <<"@", "m", "{", "h", "1", "{", "c", "o", "l", "o", "r", ":", "r", "e", "d", "}", "}">>
S_comment == <<"/", "*", "x", "*", "/">>

\* the pieces stylesheet texts are made of: rules that are kept, rules with
\* no selector or no declaration, a nested block, a comment, stray braces,
\* white space
SheetPieces ==
    {S_rule_p, S_rule_two, S_rule_empty, S_rule_comma, S_rule_novalue,
     S_rule_nested, S_comment, <<"{">>, <<"}">>, <<" ">>, <<"/", "*">>}

MaxSheetPieces == 3

SheetTexts ==
    {Flatten(ps) : ps \in UNION {[1..k -> SheetPieces] : k \in 0..MaxSheetPieces}}

\* the call ParseStylesheet(css), up to the loop: the comments are removed
SheetInit ==
    /\ ParserIdle
    /\ CascadeIdle
    /\ FlexIdle
    /\ PropsIdle
    /\ SelectIdle
    /\ BrowserIdle
    /\ nodes = <<>>
    /\ \E src \in SheetTexts :
          stylesheet = [src |-> src, css |-> removeComments(src), pos |-> 0,
                        Rules |-> <<>>, ruleAt |-> <<>>, pc |-> "parsing"]

\* end of an iteration of ParseStylesheet that reached the append: the rule
\* is stored if AppendRule kept it, and pos moves behind the closing brace
StoreRule(s, pos, braceEnd, rules) ==
    [s EXCEPT !.Rules = rules,
              !.ruleAt = IF rules = s.Rules THEN @ ELSE Append(@, pos),
              !.pos = braceEnd + 1]

\* ParseStylesheet, from `braceEnd := findMatchingBrace(css, braceStart)` on
IterateBlock(s, pos, braceStart, selectorText, braceEnd) ==
    IF braceEnd = -1 THEN [s EXCEPT !.pc = "done"]
    ELSE StoreRule(s, pos, braceEnd,
                   AppendRule(s.Rules, ParseSelectors(selectorText),
                              ParseInlineStyle(Slice(s.css, braceStart + 1,
                                                     braceEnd))))

\* ParseStylesheet, from `selectorText := ...` on
IterateRule(s, pos, braceStart, selectorText) ==
    IF selectorText = <<>> THEN [s EXCEPT !.pos = braceStart + 1]
    ELSE IterateBlock(s, pos, braceStart, selectorText,
                      findMatchingBrace(s.css, braceStart))

\* ParseStylesheet, from `braceStart := strings.Index(css[pos:], "{")` on
IterateFrom(s, pos, idx) ==
    IF idx = -1 THEN [s EXCEPT !.pc = "done"]
    ELSE IterateRule(s, pos, idx + pos,
                     TrimSpace(Slice(s.css, pos, idx + pos)))

\* ParseStylesheet, the loop body after the white space is skipped
IterateAt(s, pos) ==
    IF pos >= Len(s.css) THEN [s EXCEPT !.pc = "done"]
    ELSE IterateFrom(s, pos, Index(Slice(s.css, pos, Len(s.css)), <<"{">>))

\* one iteration of `for pos < len(css)`; a break ends the function
SheetIterate ==
    /\ stylesheet.pc = "parsing"
    /\ stylesheet.pos < Len(stylesheet.css)
    /\ stylesheet' = IterateAt(stylesheet,
                               SkipWhitespace(stylesheet.css, stylesheet.pos))
    /\ UNCHANGED parseVars
    /\ UNCHANGED otherVars
    /\ UNCHANGED <<applied, matched, browser>>

\* the loop condition fails: return stylesheet
SheetReturn ==
    /\ stylesheet.pc = "parsing"
    /\ stylesheet.pos >= Len(stylesheet.css)
    /\ stylesheet' = [stylesheet EXCEPT !.pc = "done"]
    /\ UNCHANGED parseVars
    /\ UNCHANGED otherVars
    /\ UNCHANGED <<applied, matched, browser>>

SheetNext == SheetIterate \/ SheetReturn

SpecSheet == SheetInit /\ [][SheetNext]_vars

\* the rule ParseStylesheet reads at offset at: selectors up to the next "{",
\* declarations up to its matching "}"
RuleTextAt(at) ==
    LET css == stylesheet.css
        braceStart == at + Index(Slice(css, at, Len(css)), <<"{">>)
    IN  [selectors |-> TrimSpace(Slice(css, at, braceStart)),
         declarations |->
             Slice(css, braceStart + 1, findMatchingBrace(css, braceStart))]

\* C15: every rule of the Stylesheet has at least one selector and at least
\* one declaration, and the rules stand in the order of their source text:
\* rule i is the rule read at an offset that grows with i.
C15_RulesWellFormedInOrder ==
    /\ \A i \in DOMAIN stylesheet.Rules :
          /\ Len(stylesheet.Rules[i].Selectors) >= 1
          /\ Len(stylesheet.Rules[i].Declarations) >= 1
    /\ Len(stylesheet.ruleAt) = Len(stylesheet.Rules)
    /\ \A i \in DOMAIN stylesheet.Rules :
          /\ stylesheet.Rules[i].Selectors
                 = ParseSelectors(RuleTextAt(stylesheet.ruleAt[i]).selectors)
          /\ stylesheet.Rules[i].Declarations
                 = ParseInlineStyle(RuleTextAt(stylesheet.ruleAt[i]).declarations)
          /\ i > 1 => stylesheet.ruleAt[i - 1] < stylesheet.ruleAt[i]

\* p{color:red} a{} .c,#x{color:blue;width:1px}: two rules kept, the empty
\* one between them dropped
C15_Witness ==
    /\ stylesheet.pc = "done"
    /\ stylesheet.src = S_rule_p \o S_rule_empty \o S_rule_two
    /\ Len(stylesheet.Rules) = 2
    /\ Len(stylesheet.Rules[2].Selectors) = 2
    /\ Len(stylesheet.Rules[2].Declarations) = 2

----------------------------------------------------------------------------
(* ParseSelector and Matches at work on a document root > e1 > e2 > e3 *)

\* the opening tags the three elements are made from
ChainTags ==
    { <<S_div, <<"d", "i", "v">>>>,
      <<S_div, <<"d", "i", "v", " ", "c", "l", "a", "s", "s", "=", "\"", "b", "o", "x", "\"">>>>,
      <<S_p, <<"p">>>>,
      <<S_p, <<"p", " ", "i", "d", "=", "\"", "x", "\"">>>> }

\* the simple selectors a descendant selector is written with: two type
\* selectors, a class selector, an id selector
SimpleSelectorTexts ==
    {<<"d", "i", "v">>, <<"p">>, <<".", "b", "o", "x">>, <<"#", "x">>}

MaxSelectorParts == 2

\* parts[1] parts[2] ... separated by one space
RECURSIVE JoinSpace(_)
JoinSpace(parts) ==
    IF Len(parts) = 1 THEN parts[1]
    ELSE parts[1] \o <<" ">> \o JoinSpace(Tail(parts))

SelectorPartLists ==
    UNION {[1..k -> SimpleSelectorTexts] : k \in 2..MaxSelectorParts}

SelectInit ==
    /\ ParserIdle
    /\ CascadeIdle
    /\ FlexIdle
    /\ PropsIdle
    /\ SheetIdle
    /\ BrowserIdle
    /\ \E t1 \in ChainTags, t2 \in ChainTags, t3 \in ChainTags :
          nodes = AppendChild(AppendChild(AppendChild(
                      <<NewElement(S_root), ElementFromTag(t1),
                        ElementFromTag(t2), ElementFromTag(t3)>>,
                      1, 2), 2, 3), 3, 4)
    /\ matched = [parts |-> <<>>, text |-> <<>>, node |-> Nil,
                  result |-> FALSE]

\* ParseSelector(text).Matches(node)
DoMatches ==
    /\ \E parts \in SelectorPartLists, n \in DOMAIN nodes \ {RootId} :
          matched' = [parts |-> parts, text |-> JoinSpace(parts), node |-> n,
                      result |-> Matches(nodes, n,
                                         ParseSelector(JoinSpace(parts)))]
    /\ UNCHANGED parseVars
    /\ UNCHANGED otherVars
    /\ UNCHANGED <<applied, stylesheet, browser>>

SelectNext == DoMatches

SpecSelect == SelectInit /\ [][SelectNext]_vars

\* the proper ancestors of n
ProperAncestors(h, n) ==
    LET up == Chain(h, n) IN {up[i] : i \in 2..Len(up)}

\* n matches the simple selector parts[i], and ancestors of n, going up in
\* this order, match parts[i-1], ..., parts[1]
RECURSIVE MatchesUpwards(_, _, _, _)
MatchesUpwards(h, n, parts, i) ==
    /\ Matches(h, n, parseSimpleSelector(parts[i]))
    /\ i > 1 => \E m \in ProperAncestors(h, n) :
                    MatchesUpwards(h, m, parts, i - 1)

\* C16: a descendant selector "a b", parsed by ParseSelector and tested by
\* Matches, matches a node exactly when the node matches the last simple
\* selector and ancestors of it, in order going up, match each earlier one,
\* whether the simple selectors are type, class or id selectors.
C16_DescendantSelector ==
    matched.node # Nil =>
        (matched.result <=>
            MatchesUpwards(nodes, matched.node, matched.parts,
                           Len(matched.parts)))

----------------------------------------------------------------------------
(* More properties of the flexbox engine *)

\* the outputs of a Layout call: the lines, and per item its position and
\* final size on both axes
LayoutOutputs(c) ==
    [Lines |-> c.Lines,
     Items |-> [i \in DOMAIN c.Items |->
                   <<c.Items[i].MainPos, c.Items[i].CrossPos,
                     c.Items[i].FinalMainSize, c.Items[i].FinalCrossSize>>]]

\* C18: Layout called again on the same container yields the same lines and
\* the same MainPos, CrossPos, FinalMainSize and FinalCrossSize per item as
\* the call before it.
C18_LayoutRepeatable ==
    \A i \in DOMAIN layouts :
        i > 1 => LayoutOutputs(layouts[i]) = LayoutOutputs(layouts[i - 1])

\* a second Layout has run on a wrapped container with two lines in which an
\* item has grown beyond its base size
C18_Witness ==
    /\ Len(layouts) = 2
    /\ Len(fc.Lines) = 2
    /\ \E i \in DOMAIN fc.Items :
          Lt(fc.Items[i].FlexBaseSize, fc.Items[i].FinalMainSize)

----------------------------------------------------------------------------
(* Termination of ParseHTML *)

\* The goroutine that called ParseHTML keeps running: the loop takes its
\* next iteration, and the return statement is executed, whenever there is
\* one to take.  The second conjunct is WF_vars(ParseNext) with its
\* ENABLED <<ParseNext>>_vars written out as pc = "parsing".
ParseFairness ==
    /\ WF_vars(ParseReturn)
    /\ ([]<>(pc # "parsing") \/ []<><<ParseNext>>_vars)

SpecParseFair == ParseInit /\ [][ParseNext]_vars /\ ParseFairness

\* a call of NextToken at any offset short of the end of the text ends at a
\* greater offset, within the text
NextTokenAdvances ==
    \A p \in 0..(Len(Raw) - 1) :
        /\ NextToken(Raw, p).pos > p
        /\ NextToken(Raw, p).pos <= Len(Raw)

\* C19: ParseHTML terminates on every input text: every call of NextToken
\* and every iteration of the main loop leaves the tokenizer at a greater
\* offset, and the function returns.
C19_Terminates ==
    /\ [](pc = "parsing" => NextTokenAdvances)
    /\ [][(pc = "parsing" /\ pc' = "parsing")
              => (Pos' > Pos /\ Pos' <= Len(Raw))]_vars
    /\ [](pc = "parsing" => <>(pc = "done"))

\* ParseHTML has returned from a text with a comment that is never closed
C19_Witness ==
    /\ pc = "done"
    /\ Contains(Raw, <<"<", "!", "-", "-">>)
    /\ ~Contains(Raw, <<"-", "-", ">">>)
    /\ Len(nodes) > 1

----------------------------------------------------------------------------
(* Package browser with the SpiderGopher engine: the goroutine that loads   *)
(* a page (App.LoadContent, App.initJSEngine, later App.Update) and the     *)
(* goroutine started by EventLoop.Start (EventLoop.runLoop), on one DOM.    *)
(* Timers and fetches are goroutines of their own that only call Schedule.  *)

S_old == <<"o", "l", "d">>

S_new == <<"n", "e", "w">>

\* what a <script> of the page does when Engine.Run executes it
ScriptKinds == {"setTimeout", "setInterval", "fetch", "textContent", "addEventListener"}

MaxScripts == 2

MaxTicks == 2

MaxClicks == 1

\* make(chan Job, 100)
JobQueueCap == 100

\* the element the scripts of the page write to: document.getElementById("x")
TargetId == 2

\* the page: root > p#x > "old"
PageDOM ==
    AppendChild(AppendChild(
        <<NewElement(S_root),
          ElementFromTag(<<S_p, <<"p", " ", "i", "d", "=", "\"", "x", "\"">>>>),
          NewText(S_old)>>,
        RootId, TargetId), TargetId, 3)

ScriptLists ==
    UNION { [1..n -> ScriptKinds] : n \in 1..MaxScripts }

\* JSNode.setTextContent, first statement: n.node.Children = nil
ClearChildren(h, n) == [h EXCEPT ![n].Children = <<>>]

\* JSNode.setTextContent, second part: n.node.AppendChild(realdom.NewText(text))
AppendText(h, n, text) == AppendChild(Append(h, NewText(text)), n, Len(h) + 1)

\* JSNode.setTextContent
setTextContent(h, n, text) == AppendText(ClearChildren(h, n), n, text)

\* what a pass over the tree finds below the element: its children's texts
ChildTexts(h, n) == [i \in 1..Len(h[n].Children) |-> h[h[n].Children[i]].Content]

\* EventLoop.Schedule: the job is dropped when the loop is not running; it
\* is put into the queue when there is room (`case el.jobQueue <- job`),
\* else handed to a new goroutine that will send it (`default`)
Schedule(b, job) ==
    IF ~b.running THEN b
    ELSE IF Len(b.jobQueue) < JobQueueCap
    THEN [b EXCEPT !.jobQueue = Append(@, job)]
    ELSE [b EXCEPT !.senders = @ \cup {job}]

\* App.LoadContent has parsed the page and built the first render tree; it
\* is about to call a.initJSEngine()
BrowserInit ==
    /\ ParserIdle
    /\ CascadeIdle
    /\ FlexIdle
    /\ PropsIdle
    /\ SheetIdle
    /\ SelectIdle
    /\ nodes = <<>>
    /\ \E scripts \in ScriptLists :
          browser = [main |-> "loaded", scripts |-> scripts, stmt |-> "none",
                     running |-> FALSE, loop |-> "none", job |-> "none",
                     jobQueue |-> <<>>, senders |-> {}, timeouts |-> 0,
                     fetches |-> 0,
                     interval |-> FALSE, ticks |-> 0, listeners |-> 0,
                     clicks |-> 0, dom |-> PageDOM,
                     RenderTree |-> ChildTexts(PageDOM, TargetId)]

BrowserUnchanged ==
    /\ UNCHANGED parseVars
    /\ UNCHANGED otherVars
    /\ UNCHANGED <<applied, stylesheet, matched>>

\* initJSEngine: NewEngine, SetDOM, a.JSEngine.Start() -> EventLoop.Start,
\* which sets running and starts the goroutine of runLoop
EngineStart ==
    /\ browser.main = "loaded"
    /\ browser' = [browser EXCEPT !.main = "scripts", !.running = TRUE,
                                  !.loop = "select"]
    /\ BrowserUnchanged

\* initJSEngine: a.JSEngine.Run(script) is entered for the next script
RunBegin ==
    /\ browser.main = "scripts"
    /\ browser.scripts # <<>>
    /\ browser' = [browser EXCEPT !.main = "run", !.stmt = Head(browser.scripts),
                                  !.scripts = Tail(@)]
    /\ BrowserUnchanged

\* the running script makes its call into the web API or the DOM bridge
RunCall ==
    /\ browser.main = "run"
    /\ browser.stmt # "none"
    /\ browser' =
          [CASE browser.stmt = "setTimeout" -> [browser EXCEPT !.timeouts = @ + 1]
             [] browser.stmt = "setInterval" -> [browser EXCEPT !.interval = TRUE]
             [] browser.stmt = "fetch" -> [browser EXCEPT !.fetches = @ + 1]
             [] browser.stmt = "textContent" ->
                    [browser EXCEPT !.dom = setTextContent(@, TargetId, S_new)]
             [] OTHER -> [browser EXCEPT !.listeners = @ + 1]
           EXCEPT !.stmt = "none"]
    /\ BrowserUnchanged

\* Engine.Run returns
RunEnd ==
    /\ browser.main = "run"
    /\ browser.stmt = "none"
    /\ browser' = [browser EXCEPT !.main = "scripts"]
    /\ BrowserUnchanged

\* layout.BuildRenderTree(a.DOMRoot, ...) is entered after the last script
BuildBegin ==
    /\ browser.main = "scripts"
    /\ browser.scripts = <<>>
    /\ browser' = [browser EXCEPT !.main = "build"]
    /\ BrowserUnchanged

\* BuildRenderTree has walked the tree and returns; the App is back in Update
BuildEnd ==
    /\ browser.main = "build"
    /\ browser' = [browser EXCEPT !.main = "update",
                                  !.RenderTree = ChildTexts(browser.dom, TargetId)]
    /\ BrowserUnchanged

\* App.dispatchJSClickEvent: DispatchClickEvent runs the click listeners (each
\* sets textContent), then BuildRenderTree is entered
DispatchClick ==
    /\ browser.main = "update"
    /\ browser.clicks < MaxClicks
    /\ browser' = [browser EXCEPT
                      !.main = "build", !.clicks = @ + 1,
                      !.dom = IF browser.listeners > 0
                              THEN setTextContent(@, TargetId, S_new) ELSE @]
    /\ BrowserUnchanged

\* the time.AfterFunc goroutine of a setTimeout
TimerFire ==
    /\ browser.timeouts > 0
    /\ Len(browser.jobQueue) < JobQueueCap
    /\ browser' = [Schedule(browser, "setTimeout") EXCEPT !.timeouts = @ - 1]
    /\ BrowserUnchanged

\* the ticker goroutine of a setInterval
IntervalTick ==
    /\ browser.interval
    /\ browser.ticks < MaxTicks
    /\ Len(browser.jobQueue) < JobQueueCap
    /\ browser' = [Schedule(browser, "setInterval") EXCEPT !.ticks = @ + 1]
    /\ BrowserUnchanged

\* the goroutine of a fetch, after http.Get
FetchDone ==
    /\ browser.fetches > 0
    /\ Len(browser.jobQueue) < JobQueueCap
    /\ browser' = [Schedule(browser, "fetch") EXCEPT !.fetches = @ - 1]
    /\ BrowserUnchanged

\* runLoop: case job := <-el.jobQueue, then safeRun(job) calls the callback
LoopReceive ==
    /\ browser.loop = "select"
    /\ browser.jobQueue # <<>>
    /\ browser' = [browser EXCEPT !.loop = "job", !.job = Head(browser.jobQueue),
                                  !.jobQueue = Tail(@)]
    /\ BrowserUnchanged

\* the callback's `el.textContent = ...`: setTextContent clears the children
LoopClear ==
    /\ browser.loop = "job"
    /\ browser' = [browser EXCEPT !.loop = "cleared",
                                  !.dom = ClearChildren(@, TargetId)]
    /\ BrowserUnchanged

\* setTextContent appends the new text node; the callback and safeRun return
LoopAppend ==
    /\ browser.loop = "cleared"
    /\ browser' = [browser EXCEPT !.loop = "select", !.job = "none",
                                  !.dom = AppendText(@, TargetId, S_new)]
    /\ BrowserUnchanged

BrowserNext ==
    \/ EngineStart
    \/ RunBegin
    \/ RunCall
    \/ RunEnd
    \/ BuildBegin
    \/ BuildEnd
    \/ DispatchClick
    \/ TimerFire
    \/ IntervalTick
    \/ FetchDone
    \/ LoopReceive
    \/ LoopClear
    \/ LoopAppend

SpecBrowser == BrowserInit /\ [][BrowserNext]_vars

----------------------------------------------------------------------------
(* Properties of the browser's goroutines *)

\* the event-loop goroutine is inside setTextContent, called from a timer,
\* interval or fetch callback
LoopMutating ==
    /\ browser.loop = "cleared"
    /\ browser.job \in {"setTimeout", "setInterval", "fetch"}

\* the page-loading goroutine is inside Engine.Run or BuildRenderTree
MainOnTree == browser.main \in {"run", "build"}

\* C20: single-writer discipline on the page's DOM: a setTimeout, setInterval
\* or fetch callback run by the event-loop goroutine is never inside the
\* textContent setter while the main goroutine is inside BuildRenderTree or
\* Engine.Run on the same tree.
C20_SingleWriter == ~(LoopMutating /\ MainOnTree)

----------------------------------------------------------------------------
(* The lines of a wrapping container *)

\* Layout, step 1: the container's size along the main axis
MainSizeOf(c) ==
    IF c.Direction \in {"row", "row-reverse"} THEN c.Width ELSE c.Height

\* the items of the lines, one line after the other
RECURSIVE ConcatItems(_)
ConcatItems(lines) ==
    IF lines = <<>> THEN <<>> ELSE lines[1].Items \o ConcatItems(Tail(lines))

\* what the items of a line take on the main axis: flex bases, margins, gaps
LineOuter(c, idxs) ==
    Add(OuterMainSum(c, idxs, "FlexBaseSize"), Gaps(c, Len(idxs)))

\* a wrapping container with items that Layout has run on
LaidOutWrap ==
    /\ laidOut
    /\ fc.Wrap \notin {"nowrap", ""}
    /\ Len(fc.Items) > 0

\* C21: with wrapping enabled the lines partition the items: no line is
\* empty, the lines one after the other give the items in their original
\* order, and an item starts a line only when the line before it is not
\* empty and that line's size plus the item's basis, margins and the gap
\* exceeds the container's main size.
C21_LinesPartition ==
    LaidOutWrap =>
        /\ \A li \in DOMAIN fc.Lines : fc.Lines[li].Items # <<>>
        /\ ConcatItems(fc.Lines) = AllItems
        /\ \A li \in DOMAIN fc.Lines :
              li > 1 =>
                 /\ fc.Lines[li - 1].Items # <<>>
                 /\ Lt(MainSizeOf(fc),
                       Add(Add(LineOuter(fc, fc.Lines[li - 1].Items),
                               LineOuter(fc, <<fc.Lines[li].Items[1]>>)),
                           fc.Gap))

\* three items wrapped into two lines, the first of which is filled exactly
C21_Witness ==
    /\ LaidOutWrap
    /\ Len(fc.Lines) = 2
    /\ Len(fc.Lines[1].Items) = 2
    /\ LineOuter(fc, fc.Lines[1].Items) = MainSizeOf(fc)

----------------------------------------------------------------------------
(* The flexbox engine on the cross axis: containers with every             *)
(* align-content, items of different cross sizes, cross margins and        *)
(* align-self.                                                             *)

AlignContents ==
    {"flex-start", "flex-end", "center", "space-between", "space-around",
     "stretch"}

\* 160 wide and 100 high with a gap of 10: two items of basis 60 per line,
\* lines of cross size 20 to 40, so that free cross space is left over
CrossContainers ==
    {[NewFlexContainer(160, 100, "row", w, "flex-start", 10)
         EXCEPT !.AlignItems = ai, !.AlignContent = ac] :
        w \in {"nowrap", "wrap"}, ai \in {"stretch", "center"},
        ac \in AlignContents}

\* items of basis 60: cross size 20 or 40, or 20 with cross margins of 5,
\* with align-self unset, stretch or center
CrossItems ==
    {[FlexItem(60, 0, 1, cm[1], 0, 0)
         EXCEPT !.MarginCrossStart = Num(cm[2]), !.MarginCrossEnd = Num(cm[2]),
                !.AlignSelf = as] :
        cm \in {<<20, 0>>, <<40, 0>>, <<20, 5>>},
        as \in {"", "stretch", "center"}}

CrossInit ==
    /\ ParserIdle
    /\ CascadeIdle
    /\ MoreIdle
    /\ nodes = <<>>
    /\ fc \in CrossContainers
    /\ laidOut = FALSE
    /\ layouts = <<>>

\* fc.AddItem(item), while the container is being filled
DoAddCrossItem ==
    /\ ~laidOut
    /\ Len(fc.Items) < MaxItems
    /\ \E item \in CrossItems : fc' = AddItem(fc, item)
    /\ UNCHANGED <<laidOut, layouts>>
    /\ UNCHANGED <<Raw, Pos, nodes, current, pc, last, origin, sheets, results>>
    /\ UNCHANGED moreVars

CrossNext == DoAddCrossItem \/ DoLayout

SpecCross == CrossInit /\ [][CrossNext]_vars

\* C22: after Layout every item whose effective alignment is stretch fills
\* its line: its final cross size plus its cross margins is the final cross
\* size of the line it is on, whatever the container's align-content.
C22_StretchFillsLine ==
    laidOut =>
        \A i \in DOMAIN fc.Items :
            AlignOf(fc, fc.Items[i]) = "stretch" =>
                Add(Add(fc.Items[i].FinalCrossSize,
                        fc.Items[i].MarginCrossStart),
                    fc.Items[i].MarginCrossEnd)
                    = fc.Lines[LineOf(fc, i)].CrossSize

\* the same for the containers whose align-content is not stretch
C22_StretchFillsUnstretchedLine ==
    (laidOut /\ fc.AlignContent # "stretch") => C22_StretchFillsLine

----------------------------------------------------------------------------
(* ParseSelector and CalculateSpecificity at work *)

\* how the simple selectors of a combinator selector are joined in the text
Combinators == {<<" ">>, <<" ", ">", " ">>, <<">">>}

\* the simple selectors: type, class, id, type with class, universal
SpecificityTexts ==
    SimpleSelectorTexts \cup {<<"p", ".", "b", "o", "x">>, S_star}

MaxCombined == 3

\* parts[1] parts[2] ... with the combinator between them
RECURSIVE JoinWith(_, _)
JoinWith(parts, comb) ==
    IF Len(parts) = 1 THEN parts[1]
    ELSE parts[1] \o comb \o JoinWith(Tail(parts), comb)

SpecificityInit ==
    /\ ParserIdle
    /\ CascadeIdle
    /\ FlexIdle
    /\ PropsIdle
    /\ SheetIdle
    /\ BrowserIdle
    /\ nodes = <<>>
    /\ matched = [text |-> <<>>, sel |-> ParseSelector(S_star),
                  specificity |-> CalculateSpecificity(ParseSelector(S_star))]

\* ParseSelector(text).CalculateSpecificity()
DoCalculateSpecificity ==
    /\ \E k \in 1..MaxCombined :
          \E parts \in [1..k -> SpecificityTexts], comb \in Combinators :
             matched' =
                [text |-> JoinWith(parts, comb),
                 sel |-> ParseSelector(JoinWith(parts, comb)),
                 specificity |->
                    CalculateSpecificity(ParseSelector(JoinWith(parts, comb)))]
    /\ UNCHANGED parseVars
    /\ UNCHANGED otherVars
    /\ UNCHANGED <<applied, stylesheet, browser>>

SpecificityNext == DoCalculateSpecificity

SpecSpecificity == SpecificityInit /\ [][SpecificityNext]_vars

\* the component-wise sum of the specificities of the parts
PartsSpecificity(parts) ==
    LET of == [i \in DOMAIN parts |-> CalculateSpecificity(parts[i])] IN
    Specificity(0,
                SumSeq([i \in DOMAIN parts |-> Num(of[i].IDs)])[1],
                SumSeq([i \in DOMAIN parts |-> Num(of[i].Classes)])[1],
                SumSeq([i \in DOMAIN parts |-> Num(of[i].Elements)])[1])

\* C23: the specificity of a combinator selector, child (`a > b`) or
\* descendant (`a b`), is the component-wise sum of the specificities of its
\* parts, and so is never lower than the specificity of its last part alone.
C23_CombinatorSpecificity ==
    matched.sel.Type \in {"SelectorChild", "SelectorDescendant"} =>
        /\ matched.specificity = PartsSpecificity(matched.sel.Parts)
        /\ Compare(matched.specificity,
                   CalculateSpecificity(
                       matched.sel.Parts[Len(matched.sel.Parts)])) >= 0

\* the same for descendant selectors alone
C23_DescendantSpecificity ==
    matched.sel.Type = "SelectorDescendant" => C23_CombinatorSpecificity

----------------------------------------------------------------------------
(* values.ParseLength called over and over *)

S_1em == <<"1", "e", "m">>
S_3in == <<"3", "i", "n">>
S_5vmin == <<"5", "v", "m", "i", "n">>

\* the strings parsed: one unit each, units that end with another unit's
\* name, a bare number, a keyword, a text that is no length
LengthTexts ==
    {S_10px, S_1em, S_2rem, S_3in, S_5vmin, S_50pct, S_auto, S_abc, <<"7">>}

MaxParsed == 3

ParseLengthInit ==
    /\ ParserIdle
    /\ CascadeIdle
    /\ FlexIdle
    /\ SheetIdle
    /\ SelectIdle
    /\ BrowserIdle
    /\ nodes = <<>>
    /\ applied = [parsed |-> <<>>]

\* l, err := values.ParseLength(text)
DoParseLength ==
    /\ Len(applied.parsed) < MaxParsed
    /\ \E text \in LengthTexts :
          \E o \in ValuesParseLength(text) :
             applied' = [parsed |-> Append(applied.parsed,
                                           [text |-> text, l |-> o.l,
                                            ok |-> o.ok])]
    /\ UNCHANGED parseVars
    /\ UNCHANGED otherVars
    /\ UNCHANGED <<stylesheet, matched, browser>>

ParseLengthNext == DoParseLength

SpecParseLength == ParseLengthInit /\ [][ParseLengthNext]_vars

\* C24: values.ParseLength is deterministic: two calls with the same string
\* return the same Length and the same error outcome, and a string whose
\* unit ends with another unit's name parses to the longer unit ("2rem" is
\* 2 rem, "5vmin" is 5 vmin).
C24_ParseLengthDeterministic ==
    /\ \A i, j \in DOMAIN applied.parsed :
          applied.parsed[i].text = applied.parsed[j].text =>
              /\ applied.parsed[i].l = applied.parsed[j].l
              /\ applied.parsed[i].ok = applied.parsed[j].ok
    /\ \A i \in DOMAIN applied.parsed :
          /\ applied.parsed[i].text = S_2rem =>
                /\ applied.parsed[i].ok
                /\ applied.parsed[i].l = Length(2, "UnitRem")
          /\ applied.parsed[i].text = S_5vmin =>
                /\ applied.parsed[i].ok
                /\ applied.parsed[i].l = Length(5, "UnitVmin")

\* the same for the strings whose unit does not end with another unit's name
C24_DeterministicOnPlainUnits ==
    \A i, j \in DOMAIN applied.parsed :
        /\ applied.parsed[i].text = applied.parsed[j].text
        /\ applied.parsed[i].text \notin {S_2rem, S_5vmin}
        => /\ applied.parsed[i].l = applied.parsed[j].l
           /\ applied.parsed[i].ok = applied.parsed[j].ok


\* ------------------------------------------------------------------
\* EventLoop.Schedule and runLoop: one goroutine schedules, the loop runs
\* ------------------------------------------------------------------

\* the scheduling goroutine passes this many jobs at most; the jobs are
\* numbered 1, 2, ... in the order of the Schedule calls
MaxScheduled == 103

\* NewEventLoop and Start have run: the loop is running, nothing was
\* scheduled yet
ScheduleInit ==
    /\ ParserIdle
    /\ CascadeIdle
    /\ FlexIdle
    /\ PropsIdle
    /\ SheetIdle
    /\ SelectIdle
    /\ nodes = <<>>
    /\ browser = [running |-> TRUE, jobQueue |-> <<>>, senders |-> {},
                  scheduled |-> 0, executed |-> <<>>]

\* el.Schedule(job) of the next job
ScheduleJob ==
    /\ browser.scheduled < MaxScheduled
    /\ browser' = [Schedule(browser, browser.scheduled + 1)
                       EXCEPT !.scheduled = @ + 1]
    /\ BrowserUnchanged

\* a goroutine started by the default branch of Schedule gets its job into
\* the queue: `el.jobQueue <- job` goes through when the queue has room
SenderSend ==
    /\ Len(browser.jobQueue) < JobQueueCap
    /\ \E job \in browser.senders :
          browser' = [browser EXCEPT !.jobQueue = Append(@, job),
                                     !.senders = @ \ {job}]
    /\ BrowserUnchanged

\* runLoop: `case job := <-el.jobQueue: el.safeRun(job)`
LoopRun ==
    /\ browser.running
    /\ browser.jobQueue # <<>>
    /\ browser' = [browser EXCEPT !.jobQueue = Tail(@),
                                  !.executed = Append(@, Head(browser.jobQueue))]
    /\ BrowserUnchanged

ScheduleNext == ScheduleJob \/ SenderSend \/ LoopRun

SpecSchedule == ScheduleInit /\ [][ScheduleNext]_vars

\* C25: the jobs one goroutine passes to Schedule while the loop is running
\* are executed in the order in which they were scheduled, however many of
\* them are pending
C25_ScheduleOrder ==
    \A i \in 1..Len(browser.executed) :
       i > 1 => browser.executed[i - 1] < browser.executed[i]

\* as long as no more jobs are pending than the queue holds, they are
\* executed in the order of the Schedule calls
C25_OrderWithinCapacity ==
    \A i \in 1..Len(browser.executed) :
       /\ i > 1
       /\ browser.executed[i] <= JobQueueCap
       /\ browser.executed[i - 1] <= JobQueueCap
       => browser.executed[i - 1] < browser.executed[i]


\* ------------------------------------------------------------------
\* EventLoop.Start and EventLoop.Stop called one after another
\* ------------------------------------------------------------------

\* Start and Stop are called this many times at most
MaxStartStop == 6

\* NewEventLoop: the stop channel is made here, and only here
StartStopInit ==
    /\ ParserIdle
    /\ CascadeIdle
    /\ FlexIdle
    /\ PropsIdle
    /\ SheetIdle
    /\ SelectIdle
    /\ nodes = <<>>
    /\ browser = [running |-> FALSE, stopSignal |-> "open", loops |-> 0,
                  panicked |-> FALSE, calls |-> <<>>]

\* el.Start(): nothing when running, else running = true and `go el.runLoop()`
LoopStart ==
    /\ ~browser.panicked
    /\ Len(browser.calls) < MaxStartStop
    /\ browser' = IF browser.running
                  THEN [browser EXCEPT !.calls = Append(@, "Start")]
                  ELSE [browser EXCEPT !.calls = Append(@, "Start"),
                                       !.running = TRUE,
                                       !.loops = @ + 1]
    /\ BrowserUnchanged

\* el.Stop(): nothing when not running, else close(el.stopSignal) and
\* running = false; closing a closed channel panics
LoopStop ==
    /\ ~browser.panicked
    /\ Len(browser.calls) < MaxStartStop
    /\ browser' = IF ~browser.running
                  THEN [browser EXCEPT !.calls = Append(@, "Stop")]
                  ELSE IF browser.stopSignal = "closed"
                  THEN [browser EXCEPT !.calls = Append(@, "Stop"),
                                       !.panicked = TRUE]
                  ELSE [browser EXCEPT !.calls = Append(@, "Stop"),
                                       !.stopSignal = "closed",
                                       !.running = FALSE]
    /\ BrowserUnchanged

\* runLoop: `case <-el.stopSignal: return`, ready once the channel is closed
LoopExit ==
    /\ ~browser.panicked
    /\ browser.loops > 0
    /\ browser.stopSignal = "closed"
    /\ browser' = [browser EXCEPT !.loops = @ - 1]
    /\ BrowserUnchanged

StartStopNext == LoopStart \/ LoopStop \/ LoopExit

SpecStartStop == StartStopInit /\ [][StartStopNext]_vars

\* C26: for any sequence of Start and Stop calls on one EventLoop, Stop never
\* closes the stop channel a second time, so no call panics
C26_StopNeverPanics == ~browser.panicked

\* up to and including the first Stop that follows a Start, no call panics
C26_FirstStopIsSafe ==
    browser.panicked =>
       \E i, j \in 1..Len(browser.calls) :
          /\ i < j
          /\ j < Len(browser.calls)
          /\ browser.calls[i] = "Start"
          /\ browser.calls[j] = "Stop"


\* ------------------------------------------------------------------
\* webapi.Timers: setTimeout, setInterval, clearTimeout, clearInterval
\* ------------------------------------------------------------------

\* SetTimeout and SetInterval are called this many times at most
MaxTimers == 3

\* NewTimers: an empty map, nextID 0.  `entries[id]` is what the program
\* holds for the timer made with that id: its kind, how far the
\* SetTimeout / SetInterval call has got ("created": the timer or ticker
\* runs, the map entry is not stored yet; "returned"), and the state of its
\* timer or ticker goroutine.  `handed` are the ids whose callback was
\* passed to loop.Schedule, `cleared` the ids for which ClearTimeout or
\* ClearInterval has returned.
TimersInit ==
    /\ ParserIdle
    /\ CascadeIdle
    /\ FlexIdle
    /\ PropsIdle
    /\ SheetIdle
    /\ SelectIdle
    /\ nodes = <<>>
    /\ browser = [nextID |-> 0, timers |-> {}, entries |-> <<>>,
                  handed |-> {}, cleared |-> {}]

\* no SetTimeout / SetInterval call of the script is under way
NoCallUnderWay ==
    \A id \in 1..Len(browser.entries) : browser.entries[id].call = "returned"

\* SetTimeout up to and including time.AfterFunc: the id is taken and the
\* timer is armed
SetTimeoutCreate ==
    /\ browser.nextID < MaxTimers
    /\ NoCallUnderWay
    /\ browser' = [browser EXCEPT
                      !.nextID = @ + 1,
                      !.entries = Append(@, [kind |-> "timeout",
                                             call |-> "created",
                                             fire |-> "armed"])]
    /\ BrowserUnchanged

\* SetInterval up to and including the start of the ticker goroutine
SetIntervalCreate ==
    /\ browser.nextID < MaxTimers
    /\ NoCallUnderWay
    /\ browser' = [browser EXCEPT
                      !.nextID = @ + 1,
                      !.entries = Append(@, [kind |-> "interval",
                                             call |-> "created",
                                             fire |-> "ticking"])]
    /\ BrowserUnchanged

\* the rest of SetTimeout / SetInterval: t.timers[id] = &timerEntry{...}
\* under the lock, then return
SetTimerStore ==
    \E id \in 1..Len(browser.entries) :
       /\ browser.entries[id].call = "created"
       /\ browser' = [browser EXCEPT !.timers = @ \cup {id},
                                     !.entries[id].call = "returned"]
       /\ BrowserUnchanged

\* removeTimer
removeTimer(b, id) == [b EXCEPT !.timers = @ \ {id}]

\* cancelTimer: nothing without an entry; else close(entry.done) or
\* entry.timer.Stop(), and the entry is deleted
cancelTimer(b, id) ==
    IF id \notin b.timers THEN b
    ELSE [b EXCEPT !.timers = @ \ {id},
                   !.entries[id].fire =
                       IF b.entries[id].kind = "interval" THEN "closed"
                       ELSE IF @ = "armed" THEN "stopped" ELSE @]

\* the function given to time.AfterFunc, first half: t.loop.Schedule(...)
AfterFuncSchedule ==
    \E id \in 1..Len(browser.entries) :
       /\ browser.entries[id].kind = "timeout"
       /\ browser.entries[id].fire = "armed"
       /\ browser' = [browser EXCEPT !.handed = @ \cup {id},
                                     !.entries[id].fire = "scheduled"]
       /\ BrowserUnchanged

\* the function given to time.AfterFunc, second half: t.removeTimer(id)
AfterFuncRemove ==
    \E id \in 1..Len(browser.entries) :
       /\ browser.entries[id].kind = "timeout"
       /\ browser.entries[id].fire = "scheduled"
       /\ browser' = [removeTimer(browser, id) EXCEPT
                          !.entries[id].fire = "done"]
       /\ BrowserUnchanged

\* the ticker goroutine: `case <-ticker.C: t.loop.Schedule(...)`
TickerSchedule ==
    \E id \in 1..Len(browser.entries) :
       /\ browser.entries[id].kind = "interval"
       /\ browser.entries[id].fire \in {"ticking", "closed"}
       /\ id \notin browser.handed
       /\ browser' = [browser EXCEPT !.handed = @ \cup {id}]
       /\ BrowserUnchanged

\* the ticker goroutine: `case <-done: ticker.Stop(); return`
TickerDone ==
    \E id \in 1..Len(browser.entries) :
       /\ browser.entries[id].kind = "interval"
       /\ browser.entries[id].fire = "closed"
       /\ browser' = [browser EXCEPT !.entries[id].fire = "stopped"]
       /\ BrowserUnchanged

\* ClearTimeout(id) and ClearInterval(id) of the script, with an id that
\* SetTimeout or SetInterval has returned: both are cancelTimer(id)
ClearTimeout ==
    /\ NoCallUnderWay
    /\ \E id \in 1..Len(browser.entries) :
          /\ id \notin browser.cleared
          /\ browser.entries[id].kind = "timeout"
          /\ browser' = [cancelTimer(browser, id) EXCEPT
                             !.cleared = @ \cup {id}]
    /\ BrowserUnchanged

ClearInterval ==
    /\ NoCallUnderWay
    /\ \E id \in 1..Len(browser.entries) :
          /\ id \notin browser.cleared
          /\ browser.entries[id].kind = "interval"
          /\ browser' = [cancelTimer(browser, id) EXCEPT
                             !.cleared = @ \cup {id}]
    /\ BrowserUnchanged

TimersNext ==
    \/ SetTimeoutCreate
    \/ SetIntervalCreate
    \/ SetTimerStore
    \/ AfterFuncSchedule
    \/ AfterFuncRemove
    \/ TickerSchedule
    \/ TickerDone
    \/ ClearTimeout
    \/ ClearInterval

SpecTimers == TimersInit /\ [][TimersNext]_vars

\* C27: under every interleaving of SetTimeout, the firing of the timer,
\* ClearTimeout and ClearInterval, the timers map holds only pending
\* timers: once SetTimeout has returned and the timer's function has handed
\* the callback to the event loop and finished, or once ClearTimeout or
\* ClearInterval for the id has returned, the map has no entry for the id
C27_OnlyPendingTimers ==
    \A id \in 1..Len(browser.entries) :
       /\ browser.entries[id].call = "returned"
       /\ \/ browser.entries[id].fire = "done"
          \/ id \in browser.cleared
       => id \notin browser.timers

\* once ClearTimeout or ClearInterval for an id has returned, the map has no
\* entry for the id
C27_ClearedIsRemoved ==
    \A id \in 1..Len(browser.entries) :
       id \in browser.cleared => id \notin browser.timers


\* ------------------------------------------------------------------
\* render.ImageCache and LoadImageAsync
\* ------------------------------------------------------------------

ImageURLs == {"a.png", "b.png", "c.png"}

\* LoadImageAsync is called this many times at most
MaxLoads == 4

\* StartLoading on a cache that looks at the loading map only
StartLoadingUnlessLoading(c, imgURL) ==
    IF imgURL \in c.loading
    THEN [cache |-> c, ok |-> FALSE]
    ELSE [cache |-> [c EXCEPT !.loading = @ \cup {imgURL}], ok |-> TRUE]

\* ImageCache.StartLoading, under the mutex: the cache after the call and
\* the value returned
StartLoading(c, imgURL) ==
    IF imgURL \in c.loading \/ imgURL \in c.images \/ imgURL \in c.failed
    THEN [cache |-> c, ok |-> FALSE]
    ELSE [cache |-> [c EXCEPT !.loading = @ \cup {imgURL}], ok |-> TRUE]

\* ImageCache.SetImage, under the mutex
SetImage(c, imgURL) ==
    [c EXCEPT !.images = @ \cup {imgURL}, !.loading = @ \ {imgURL}]

\* ImageCache.SetFailed, under the mutex
SetFailed(c, imgURL) ==
    [c EXCEPT !.failed = @ \cup {imgURL}, !.loading = @ \ {imgURL}]

\* the global Cache with its three empty maps.  `loads` counts the
\* LoadImageAsync calls, `calls[u]` those for u, `started[u]` the times StartLoading(u) returned
\* true, `fetching[u]` the goroutines now fetching u.
ImagesInit ==
    /\ ParserIdle
    /\ CascadeIdle
    /\ FlexIdle
    /\ PropsIdle
    /\ SheetIdle
    /\ SelectIdle
    /\ nodes = <<>>
    /\ browser = [images |-> {}, loading |-> {}, failed |-> {}, loads |-> 0,
                  calls |-> [u \in ImageURLs |-> 0],
                  started |-> [u \in ImageURLs |-> 0],
                  fetching |-> [u \in ImageURLs |-> 0]]

\* LoadImageAsync after its StartLoading call returned r: return, or start
\* the goroutine
AfterStartLoading(r, imgURL) ==
    IF ~r.ok
    THEN [r.cache EXCEPT !.loads = @ + 1, !.calls[imgURL] = @ + 1]
    ELSE [r.cache EXCEPT !.loads = @ + 1, !.calls[imgURL] = @ + 1,
                         !.started[imgURL] = @ + 1,
                         !.fetching[imgURL] = @ + 1]

\* one of the concurrent LoadImageAsync(imgURL, baseURL) calls
LoadImageAsync ==
    /\ browser.loads < MaxLoads
    /\ \E imgURL \in ImageURLs :
          browser' = AfterStartLoading(StartLoading(browser, imgURL), imgURL)
    /\ BrowserUnchanged

\* the goroutine of LoadImageAsync: http.Get or image.Decode fails
FetchFails ==
    /\ \E imgURL \in ImageURLs :
          /\ browser.fetching[imgURL] > 0
          /\ browser' = [SetFailed(browser, imgURL) EXCEPT
                             !.fetching[imgURL] = @ - 1]
    /\ BrowserUnchanged

\* the goroutine of LoadImageAsync: the image is fetched and decoded
FetchSucceeds ==
    /\ \E imgURL \in ImageURLs :
          /\ browser.fetching[imgURL] > 0
          /\ browser' = [SetImage(browser, imgURL) EXCEPT
                             !.fetching[imgURL] = @ - 1]
    /\ BrowserUnchanged

ImagesNext == LoadImageAsync \/ FetchFails \/ FetchSucceeds

SpecImages == ImagesInit /\ [][ImagesNext]_vars

\* C28: for each image URL, under any interleaving of concurrent
\* LoadImageAsync calls, StartLoading returns true at most once, so at most
\* one fetch is started; the URL is in at most one of the states loading,
\* loaded and failed at any time; and once it is loaded or failed it never
\* becomes loading again
C28_OneFetchPerURL ==
    [][\A u \in ImageURLs :
          /\ browser'.started[u] <= 1
          /\ ~(u \in browser'.loading /\ u \in browser'.images)
          /\ ~(u \in browser'.loading /\ u \in browser'.failed)
          /\ ~(u \in browser'.images /\ u \in browser'.failed)
          /\ (u \in browser.images \/ u \in browser.failed)
                => u \notin browser'.loading]_vars

\* a.png was asked for three times, the first fetch failed; b.png was
\* loaded
C28_Witness ==
    /\ browser.calls["a.png"] = 3
    /\ "a.png" \in browser.failed
    /\ browser.started["a.png"] = 1
    /\ "b.png" \in browser.images


\* ------------------------------------------------------------------
\* App.Navigate, the Back / Forward / Refresh buttons and the URL bar
\* ------------------------------------------------------------------

S_httpScheme == <<"h", "t", "t", "p", ":", "/", "/">>

S_httpsScheme == <<"h", "t", "t", "p", "s", ":", "/", "/">>

S_exampleURL == S_httpsScheme \o <<"e", "x", ".", "c", "o", "m">>

\* the URLs of the links that are clicked
LinkURLs == {S_httpsScheme \o S_a, S_httpsScheme \o S_b}

\* what the user leaves in the URL bar before pressing Enter
URLBarTexts == {<<>>, <<" ">>, S_b, <<" ">> \o S_i, S_httpScheme \o S_a}

\* Navigate is called this many times at most
MaxNavigations == 3

\* NewApp
HistoryInit ==
    /\ ParserIdle
    /\ CascadeIdle
    /\ FlexIdle
    /\ PropsIdle
    /\ SheetIdle
    /\ SelectIdle
    /\ nodes = <<>>
    /\ browser = [URL |-> S_exampleURL, History |-> <<>>, HistoryPos |-> -1,
                  IsLoading |-> FALSE, navigations |-> 0,
                  NavBar |-> [URLText |-> <<>>, IsEditing |-> FALSE]]

\* App.LoadFromURL of an http(s) URL: the page is fetched by a goroutine
LoadFromURL(a, urlStr) == [a EXCEPT !.IsLoading = TRUE]

\* the goroutine of LoadFromURL has finished
LoadFinished ==
    /\ browser.IsLoading
    /\ browser' = [browser EXCEPT !.IsLoading = FALSE]
    /\ BrowserUnchanged

\* Navigate: the history is cut after HistoryPos
TruncateForward(a) ==
    IF a.HistoryPos < Len(a.History) - 1
    THEN [a EXCEPT !.History = Slice(@, 0, a.HistoryPos + 1)]
    ELSE a

\* Navigate after the cut: append, HistoryPos, URL, LoadFromURL
NavigateAppend(a, urlStr) ==
    LoadFromURL([a EXCEPT !.History = Append(@, urlStr),
                          !.HistoryPos = Len(a.History),
                          !.URL = urlStr], urlStr)

\* App.Navigate(urlStr), called for a click on a link
Navigate ==
    /\ browser.navigations < MaxNavigations
    /\ \E urlStr \in LinkURLs :
          browser' = [NavigateAppend(TruncateForward(browser), urlStr)
                          EXCEPT !.navigations = @ + 1]
    /\ BrowserUnchanged

\* NavBar.HandleClick on the Back button
ClickBack ==
    /\ browser' = IF browser.HistoryPos > 0
                  THEN LoadFromURL(
                          [browser EXCEPT
                              !.HistoryPos = @ - 1,
                              !.URL = browser.History[browser.HistoryPos]],
                          browser.History[browser.HistoryPos])
                  ELSE browser
    /\ BrowserUnchanged

\* NavBar.HandleClick on the Forward button
ClickForward ==
    /\ browser' = IF browser.HistoryPos < Len(browser.History) - 1
                  THEN LoadFromURL(
                          [browser EXCEPT
                              !.HistoryPos = @ + 1,
                              !.URL = browser.History[browser.HistoryPos + 2]],
                          browser.History[browser.HistoryPos + 2])
                  ELSE browser
    /\ BrowserUnchanged

\* NavBar.HandleClick on the Refresh button
ClickRefresh ==
    /\ browser' = LoadFromURL(browser, browser.URL)
    /\ BrowserUnchanged

\* NavBar.HandleClick on the URL bar
ClickURLBar ==
    /\ browser' = IF ~browser.NavBar.IsEditing
                  THEN [browser EXCEPT !.NavBar.IsEditing = TRUE,
                                       !.NavBar.URLText = browser.URL]
                  ELSE browser
    /\ BrowserUnchanged

\* NavBar.HandleInput, the keys that edit the text: what they leave in the
\* URL bar
EditURLText ==
    /\ browser.NavBar.IsEditing
    /\ \E text \in URLBarTexts :
          browser' = [browser EXCEPT !.NavBar.URLText = text]
    /\ BrowserUnchanged

\* the URL of the URL bar gets "https://" in front unless it has a scheme
WithScheme(url) ==
    IF ~HasPrefix(url, S_httpScheme) /\ ~HasPrefix(url, S_httpsScheme)
    THEN S_httpsScheme \o url
    ELSE url

\* NavBar.HandleInput, Enter with url the trimmed text of the URL bar
SubmitURL(a, url) ==
    IF url # <<>>
    THEN LoadFromURL([a EXCEPT !.NavBar.IsEditing = FALSE,
                               !.URL = WithScheme(url)], WithScheme(url))
    ELSE [a EXCEPT !.NavBar.IsEditing = FALSE]

\* NavBar.HandleInput: Enter is pressed
PressEnter ==
    /\ browser.NavBar.IsEditing
    /\ browser' = SubmitURL(browser, TrimSpace(browser.NavBar.URLText))
    /\ BrowserUnchanged

HistoryNext ==
    \/ Navigate
    \/ ClickBack
    \/ ClickForward
    \/ ClickRefresh
    \/ ClickURLBar
    \/ EditURLText
    \/ PressEnter
    \/ LoadFinished

SpecHistory == HistoryInit /\ [][HistoryNext]_vars

\* C29: after any sequence of Navigate calls, Back and Forward clicks and
\* URL-bar submissions, HistoryPos is -1 with an empty History or a valid
\* index into History, and whenever History is non-empty App.URL equals
\* History[HistoryPos]
C29_HistoryInvariant ==
    /\ \/ browser.History = <<>> /\ browser.HistoryPos = -1
       \/ browser.HistoryPos \in 0..(Len(browser.History) - 1)
    /\ browser.History # <<>>
          => browser.URL = browser.History[browser.HistoryPos + 1]

\* HistoryPos is -1 with an empty History or a valid index into History
C29_HistoryPosValid ==
    \/ browser.History = <<>> /\ browser.HistoryPos = -1
    \/ browser.HistoryPos \in 0..(Len(browser.History) - 1)


\* ------------------------------------------------------------------
\* forms.FormState: focus, values and the shared cursor
\* ------------------------------------------------------------------

\* a form element of the document: its tag, its type attribute, its id
\* (GetElementID: the id or name attribute), its value attribute or text
\* content, and the values of its options
FormElement(tag, type, id, value, options) ==
    [Tag |-> tag, type |-> type, id |-> id, value |-> value,
     options |-> options]

S_xx == <<"x", "x">>

\* the documents: their form elements in document order
FormDocs ==
    { <<FormElement("input", "", "i", S_xx, <<>>),
        FormElement("textarea", "", "t", <<" ", "x">>, <<>>),
        FormElement("input", "submit", "b", <<>>, <<>>)>>,
      <<FormElement("input", "text", "i", <<>>, <<>>),
        FormElement("select", "", "s", <<>>, <<S_xx, S_x>>)>>,
      <<FormElement("input", "text", "q", <<>>, <<>>),
        FormElement("select", "", "q", <<>>, <<S_xx, S_x>>)>> }

\* the characters typed, and the keys of a frame
FormRunes == {<<>>, <<"x">>}

FormKeys ==
    {<<>>, <<"Tab">>, <<"Backspace">>, <<"Delete">>, <<"Enter">>, <<"Left">>,
     <<"Right">>, <<"Home">>, <<"End">>}

\* values are not typed longer than this
MaxValueLen == 2

\* FormState.GetValue: the map's value, "" without an entry
GetValue(fs, id) ==
    IF id \in DOMAIN fs.Values THEN fs.Values[id] ELSE <<>>

\* FormState.SetValue
SetValue(fs, id, value) ==
    [fs EXCEPT !.Values = [k \in (DOMAIN @) \cup {id} |->
                              IF k = id THEN value ELSE @[k]]]

\* FormState.SetFocus
SetFocus(fs, id) ==
    [fs EXCEPT !.FocusedID = id, !.CursorPos = Len(GetValue(fs, id))]

\* "Initialize value if not set"
InitValue(fs, id, value) ==
    IF id \in DOMAIN fs.Values THEN fs ELSE SetValue(fs, id, value)

\* InputHandler.HandleClick
InputHandleClick(node, fs) ==
    IF (IF node.type = "" THEN "text" ELSE node.type)
          \in {"text", "password", "email", "search", "tel", "url", "number"}
    THEN InitValue(SetFocus(fs, node.id), node.id, node.value)
    ELSE fs

\* TextareaHandler.HandleClick: the value starts as the trimmed text content
TextareaHandleClick(node, fs) ==
    IF node.value # <<>>
    THEN InitValue(SetFocus(fs, node.id), node.id, TrimSpace(node.value))
    ELSE SetFocus(fs, node.id)

\* SelectHandler.HandleClick; optIdx is the option under the click, -1 for
\* a click above the options
SelectHandleClick(node, fs, optIdx) ==
    IF fs.SelectOpen = node.id
    THEN [(IF optIdx >= 0 /\ optIdx < Len(node.options)
           THEN SetValue(fs, node.id, node.options[optIdx + 1])
           ELSE fs) EXCEPT !.SelectOpen = ""]
    ELSE [fs EXCEPT !.SelectOpen = node.id]

\* handleFormClick on the box of a form element: GetHandler(tag).HandleClick
HandleClick(node, fs, optIdx) ==
    CASE node.Tag = "input" -> InputHandleClick(node, fs)
      [] node.Tag = "textarea" -> TextareaHandleClick(node, fs)
      [] node.Tag = "select" -> SelectHandleClick(node, fs, optIdx)
      [] OTHER -> fs


\* value[:pos] + c + value[pos:]
InsertAt(value, pos, c) ==
    Slice(value, 0, pos) \o <<c>> \o Slice(value, pos, Len(value))

\* value[:pos] + value[pos+1:]
RemoveAt(value, pos) ==
    Slice(value, 0, pos) \o Slice(value, pos + 1, Len(value))

\* HandleInput keeps the value in a local variable and the cursor in the
\* form state: `st` holds both, whether the value changed, and whether a
\* slice expression was out of range
InputLocals(fs, id) ==
    [value |-> GetValue(fs, id), CursorPos |-> fs.CursorPos,
     changed |-> FALSE, panicked |-> FALSE]

\* "Handle character input"
RECURSIVE TypeRunes(_, _)
TypeRunes(st, runes) ==
    IF runes = <<>> THEN st
    ELSE TypeRunes(IF st.CursorPos <= Len(st.value)
                   THEN [st EXCEPT
                            !.value = InsertAt(@, st.CursorPos, Head(runes)),
                            !.CursorPos = @ + 1,
                            !.changed = TRUE]
                   ELSE st,
                   Tail(runes))

\* the Backspace case of both handlers
KeyBackspace(st) ==
    IF st.CursorPos > 0 /\ Len(st.value) > 0
    THEN IF st.CursorPos > Len(st.value)
         THEN [st EXCEPT !.panicked = TRUE]
         ELSE [st EXCEPT !.value = RemoveAt(@, st.CursorPos - 1),
                         !.CursorPos = @ - 1,
                         !.changed = TRUE]
    ELSE st

\* the Left and Right cases of both handlers
KeyLeftRight(st, key) ==
    IF key = "Left"
    THEN IF st.CursorPos > 0 THEN [st EXCEPT !.CursorPos = @ - 1] ELSE st
    ELSE IF st.CursorPos < Len(st.value)
         THEN [st EXCEPT !.CursorPos = @ + 1]
         ELSE st

\* InputHandler.HandleInput, one key of "Handle special keys"
InputKey(st, key) ==
    CASE key = "Backspace" -> KeyBackspace(st)
      [] key = "Delete" ->
            IF st.CursorPos < Len(st.value)
            THEN [st EXCEPT !.value = RemoveAt(@, st.CursorPos),
                            !.changed = TRUE]
            ELSE st
      [] key \in {"Left", "Right"} -> KeyLeftRight(st, key)
      [] key = "Home" -> [st EXCEPT !.CursorPos = 0]
      [] key = "End" -> [st EXCEPT !.CursorPos = Len(st.value)]
      [] OTHER -> st

\* TextareaHandler.HandleInput, one key of "Special keys"
TextareaKey(st, key) ==
    CASE key = "Enter" ->
            IF st.CursorPos > Len(st.value)
            THEN [st EXCEPT !.panicked = TRUE]
            ELSE [st EXCEPT !.value = InsertAt(@, st.CursorPos, "\n"),
                            !.CursorPos = @ + 1,
                            !.changed = TRUE]
      [] key = "Backspace" -> KeyBackspace(st)
      [] key \in {"Left", "Right"} -> KeyLeftRight(st, key)
      [] OTHER -> st

\* the loop over the keys; a panic ends it
RECURSIVE PressKeys(_, _, _)
PressKeys(tag, st, keys) ==
    IF keys = <<>> \/ st.panicked THEN st
    ELSE PressKeys(tag,
                   IF tag = "input" THEN InputKey(st, Head(keys))
                   ELSE TextareaKey(st, Head(keys)),
                   Tail(keys))

\* the end of HandleInput: `if changed { state.SetValue(id, value) }`
StoreInput(fs, id, st) ==
    IF st.changed /\ ~st.panicked
    THEN SetValue([fs EXCEPT !.CursorPos = st.CursorPos], id, st.value)
    ELSE [fs EXCEPT !.CursorPos = st.CursorPos]

\* SelectHandler.HandleInput: the index of the current value, 0 when it is
\* no option
CurrentIdx(options, currentVal) ==
    IF \E i \in 1..Len(options) : options[i] = currentVal
    THEN (CHOOSE i \in 1..Len(options) :
             /\ options[i] = currentVal
             /\ \A j \in 1..(i - 1) : options[j] # currentVal) - 1
    ELSE 0

\* SelectHandler.HandleInput: the loop over the keys
RECURSIVE SelectKeys(_, _, _, _)
SelectKeys(node, fs, currentIdx, keys) ==
    IF keys = <<>> THEN fs
    ELSE SelectKeys(
            node,
            CASE Head(keys) = "Down" /\ currentIdx < Len(node.options) - 1 ->
                    SetValue(fs, node.id, node.options[currentIdx + 2])
              [] Head(keys) = "Up" /\ currentIdx > 0 ->
                    SetValue(fs, node.id, node.options[currentIdx])
              [] Head(keys) \in {"Enter", "Escape"} ->
                    [fs EXCEPT !.SelectOpen = ""]
              [] OTHER -> fs,
            currentIdx, Tail(keys))

\* SelectHandler.HandleInput
SelectHandleInput(node, fs, keys) ==
    IF fs.SelectOpen # node.id THEN fs
    ELSE SelectKeys(node, fs,
                    CurrentIdx(node.options, GetValue(fs, node.id)), keys)

\* App.findNodeByID: the first element with the id
findNodeByID(doc, id) ==
    doc[CHOOSE i \in 1..Len(doc) :
           /\ doc[i].id = id
           /\ \A j \in 1..(i - 1) : doc[j].id # id]

\* focusNextElement: the index of the focused id among the focusable ids,
\* -1 when it is not there
FocusedIdx(doc, id) ==
    IF \E i \in 1..Len(doc) : doc[i].id = id
    THEN (CHOOSE i \in 1..Len(doc) :
             /\ doc[i].id = id
             /\ \A j \in 1..(i - 1) : doc[j].id # id) - 1
    ELSE -1

\* App.focusNextElement: every element here is interactive and focusable
focusNextElement(doc, fs) ==
    SetFocus(fs, doc[((FocusedIdx(doc, fs.FocusedID) + 1) % Len(doc)) + 1].id)

\* InputHandler.HandleInput and TextareaHandler.HandleInput with the local
\* variables as the loops left them
AfterKeys(b, id, st) ==
    [b EXCEPT !.panicked = st.panicked, !.fs = StoreInput(b.fs, id, st)]

\* handleFormInput from the focused node on: GetHandler(tag).HandleInput
HandleInput(b, node, runes, keys) ==
    CASE node.Tag \in {"input", "textarea"} ->
            AfterKeys(b, node.id,
                      PressKeys(node.Tag,
                                TypeRunes(InputLocals(b.fs, node.id), runes),
                                keys))
      [] node.Tag = "select" ->
            [b EXCEPT !.fs = SelectHandleInput(node, b.fs, keys)]
      [] OTHER -> b

\* App.handleFormInput
handleFormInput(b, runes, keys) ==
    IF b.fs.FocusedID = "" THEN b
    ELSE IF \E i \in 1..Len(keys) : keys[i] = "Tab"
    THEN [b EXCEPT !.fs = focusNextElement(b.doc, b.fs)]
    ELSE HandleInput(b, findNodeByID(b.doc, b.fs.FocusedID), runes, keys)

\* NewFormState, and a document with its form elements
FormsInit ==
    /\ ParserIdle
    /\ CascadeIdle
    /\ FlexIdle
    /\ PropsIdle
    /\ SheetIdle
    /\ SelectIdle
    /\ nodes = <<>>
    /\ \E doc \in FormDocs :
          browser = [doc |-> doc, panicked |-> FALSE,
                     fs |-> [Values |-> <<>>, FocusedID |-> "",
                             CursorPos |-> 0, SelectOpen |-> ""]]

\* a click on a form element: handleFormClick
FormClick ==
    /\ ~browser.panicked
    /\ \E i \in 1..Len(browser.doc) :
          \E optIdx \in -1..Len(browser.doc[i].options) :
             browser' = [browser EXCEPT
                            !.fs = HandleClick(browser.doc[i], @, optIdx)]
    /\ BrowserUnchanged

\* the keyboard input of a frame: handleFormInput
FormInput ==
    /\ ~browser.panicked
    /\ \E runes \in FormRunes :
          \E keys \in FormKeys :
             /\ Len(GetValue(browser.fs, browser.fs.FocusedID)) + Len(runes)
                   + (IF keys = <<"Enter">> THEN 1 ELSE 0) <= MaxValueLen
             /\ browser' = handleFormInput(browser, runes, keys)
    /\ BrowserUnchanged

FormsNext == FormClick \/ FormInput

SpecForms == FormsInit /\ [][FormsNext]_vars

\* C30: for any document and any sequence of clicks on form elements, Tab
\* focus changes and key inputs, whenever an element is focused the shared
\* cursor satisfies 0 <= CursorPos <= len(Values[FocusedID]), so slicing the
\* focused value at CursorPos never goes out of range
C30_CursorInRange ==
    /\ ~browser.panicked
    /\ browser.fs.FocusedID # ""
          => /\ 0 <= browser.fs.CursorPos
             /\ browser.fs.CursorPos
                   <= Len(GetValue(browser.fs, browser.fs.FocusedID))

\* in a document without select elements the cursor stays in range
C30_CursorInRangeWithoutSelect ==
    (\A i \in 1..Len(browser.doc) : browser.doc[i].Tag # "select")
    => /\ ~browser.panicked
       /\ browser.fs.FocusedID # ""
             => /\ 0 <= browser.fs.CursorPos
                /\ browser.fs.CursorPos
                      <= Len(GetValue(browser.fs, browser.fs.FocusedID))

\* a slice expression of a handler is out of range
C30_NoSliceOutOfRange == ~browser.panicked

====
